---- MODULE Spec2Model ----
(***************************************************************************)
(* A model of analyze_slow_queries.py: the schema catalog parser, the log  *)
(* message parser, the per-statement extractors, keyspace resolution, the  *)
(* aggregation fold and the ranking of the five reports.                   *)
(*                                                                         *)
(* Python strings are TLA+ strings; indices are Python's (0-based).        *)
(* Python's None is the string NONE, which no input contains.  A Python    *)
(* dict is a sequence of <<key, value>> pairs in insertion order.          *)
(***************************************************************************)
EXTENDS Integers, Sequences, FiniteSets, TLC

VARIABLES
    args,          \* the inputs of run(): schema text, query patterns, tag map, hits
    config,        \* the Config object
    pc,            \* where run() is: "start", "loaded", "analyzed", "reported", "aborted"
    idx,           \* number of hits process_file has consumed
    processed,     \* the list of events process_file has returned so far
    results,       \* history: for each consumed hit, what became of it
    CF_KEYSPACES,  \* MessageProcessor.CF_KEYSPACES, the class-level cache
    folded,        \* history: the five rollups after the fold, before the min-count filter
    analysis,      \* what analyze() returned
    written,       \* the rows Reporter.report has written
    parsers        \* the callers of _guess_keyspace that run side by side, none in run()

vars ==
    <<args, config, pc, idx, processed, results, CF_KEYSPACES, folded, analysis, written,
      parsers>>

----------------------------------------------------------------------------
(* Python values *)

NONE == "<None>"

Truthy(x) == x # NONE /\ x # ""

Min(S) == CHOOSE x \in S : \A y \in S : x <= y

Max(S) == CHOOSE x \in S : \A y \in S : x >= y

----------------------------------------------------------------------------
(* Python str methods *)

\* s[i]
Ch(s, i) == SubSeq(s, i + 1, i + 1)

\* s[a:b], with Python's treatment of negative and out-of-range bounds
PySlice(s, a, b) ==
    LET n  == Len(s)
        a1 == IF a < 0 THEN Max({0, a + n}) ELSE Min({a, n})
        b1 == IF b < 0 THEN Max({0, b + n}) ELSE Min({b, n})
    IN  IF a1 >= b1 THEN "" ELSE SubSeq(s, a1 + 1, b1)

\* s[a:]
PyFrom(s, a) == PySlice(s, a, Len(s))

StartsWithAt(s, sub, i) ==
    /\ i >= 0
    /\ i + Len(sub) <= Len(s)
    /\ SubSeq(s, i + 1, i + Len(sub)) = sub

\* s.startswith(sub)
StartsWith(s, sub) == StartsWithAt(s, sub, 0)

\* s.find(sub, start)
Find(s, sub, start) ==
    LET hits == {i \in start .. (Len(s) - Len(sub)) : StartsWithAt(s, sub, i)}
    IN  IF hits = {} THEN -1 ELSE Min(hits)

\* sub in s
Contains(s, sub) == Find(s, sub, 0) # -1

RECURSIVE Intersperse(_, _)
Intersperse(s, new) ==
    IF s = "" THEN new ELSE new \o Ch(s, 0) \o Intersperse(PyFrom(s, 1), new)

RECURSIVE Replace(_, _, _)
\* s.replace(old, new)
Replace(s, old, new) ==
    IF old = "" THEN Intersperse(s, new)
    ELSE LET i == Find(s, old, 0)
         IN  IF i = -1 THEN s
             ELSE PySlice(s, 0, i) \o new \o Replace(PyFrom(s, i + Len(old)), old, new)

RECURSIVE Split(_, _)
\* s.split(sep)
Split(s, sep) ==
    LET i == Find(s, sep, 0)
    IN  IF i = -1 THEN <<s>>
        ELSE <<PySlice(s, 0, i)>> \o Split(PyFrom(s, i + Len(sep)), sep)

\* s.split(sep, 1)
Split1(s, sep) ==
    LET i == Find(s, sep, 0)
    IN  IF i = -1 THEN <<s>> ELSE <<PySlice(s, 0, i), PyFrom(s, i + Len(sep))>>

\* s.splitlines()
SplitLines(s) ==
    IF s = "" THEN <<>>
    ELSE LET parts == Split(s, "\n")
         IN  IF parts[Len(parts)] = "" THEN SubSeq(parts, 1, Len(parts) - 1) ELSE parts

RECURSIVE LStrip(_, _)
LStrip(s, chars) ==
    IF s # "" /\ Contains(chars, Ch(s, 0)) THEN LStrip(PyFrom(s, 1), chars) ELSE s

RECURSIVE RStrip(_, _)
RStrip(s, chars) ==
    IF s # "" /\ Contains(chars, Ch(s, Len(s) - 1))
    THEN RStrip(PySlice(s, 0, Len(s) - 1), chars) ELSE s

\* s.strip(chars)
Strip(s, chars) == RStrip(LStrip(s, chars), chars)

UPPERCASE == "ABCDEFGHIJKLMNOPQRSTUVWXYZ"

LOWERCASE == "abcdefghijklmnopqrstuvwxyz"

RECURSIVE Lower(_)
\* s.lower()
Lower(s) ==
    IF s = "" THEN ""
    ELSE LET c == Ch(s, 0)
             i == Find(UPPERCASE, c, 0)
         IN  (IF i = -1 THEN c ELSE Ch(LOWERCASE, i)) \o Lower(PyFrom(s, 1))

RECURSIVE Join(_, _)
\* sep.join(parts)
Join(parts, sep) ==
    IF parts = <<>> THEN ""
    ELSE IF Len(parts) = 1 THEN parts[1]
    ELSE parts[1] \o sep \o Join(Tail(parts), sep)

\* filter(None, parts)
FilterNonEmpty(parts) == SelectSeq(parts, LAMBDA p : p # "")

DIGITS == "0123456789"

IsDigits(s) == s # "" /\ \A i \in 0 .. (Len(s) - 1) : Contains(DIGITS, Ch(s, i))

RECURSIVE DigitsValue(_)
DigitsValue(s) ==
    IF s = "" THEN 0
    ELSE 10 * DigitsValue(PySlice(s, 0, Len(s) - 1)) + Find(DIGITS, Ch(s, Len(s) - 1), 0)

\* int(s): surrounding blanks and one sign are accepted; anything else raises ValueError
IntBody(s) ==
    LET t == Strip(s, " ")
    IN  IF t # "" /\ Contains("+-", Ch(t, 0)) THEN PyFrom(t, 1) ELSE t

IntOk(s) == IsDigits(IntBody(s))

IntOf(s) ==
    LET t == Strip(s, " ")
        v == DigitsValue(IntBody(s))
    IN  IF t # "" /\ Ch(t, 0) = "-" THEN 0 - v ELSE v

----------------------------------------------------------------------------
(* Python dict, as a sequence of <<key, value>> pairs in insertion order *)

DictHas(d, k) == \E i \in 1 .. Len(d) : d[i][1] = k

DictGet(d, k) == d[CHOOSE i \in 1 .. Len(d) : d[i][1] = k][2]

\* d[k] = v
DictSet(d, k, v) ==
    IF DictHas(d, k)
    THEN [i \in 1 .. Len(d) |-> IF d[i][1] = k THEN <<k, v>> ELSE d[i]]
    ELSE Append(d, <<k, v>>)

\* d.values()
DictValues(d) == [i \in 1 .. Len(d) |-> d[i][2]]

\* d.keys()
DictKeys(d) == [i \in 1 .. Len(d) |-> d[i][1]]

----------------------------------------------------------------------------
(* str_slice *)

\* str_slice(string, before, after): the text between two markers, or None
str_slice(string, before, after) ==
    LET start == Find(string, before, 0)
        rest  == PyFrom(string, start + Len(before))
        end   == Find(rest, after, 0)
    IN  IF start = -1 THEN NONE
        ELSE IF end = -1 THEN NONE
        ELSE PySlice(rest, 0, end)

----------------------------------------------------------------------------
(* SchemaProcessor *)

StripEach(parts) == [i \in 1 .. Len(parts) |-> Strip(parts[i], " ")]

\* The value CREATE TABLE records for a table before its key line is read: {}
EmptyMeta == [has_keys |-> FALSE, primary_key |-> <<>>, clustering_key |-> <<>>]

\* SchemaProcessor._parse_create_table
_parse_create_table(create_table_str) ==
    [keyspace      |-> str_slice(create_table_str, "CREATE TABLE ", "."),
     column_family |-> str_slice(create_table_str, ".", " ")]

\* SchemaProcessor._parse_keys
_parse_keys(line) ==
    LET primary_key_str == Replace(line, "PRIMARY KEY ", "")
    IN  IF StartsWith(primary_key_str, "((")
        THEN LET pk_ck_split == Find(primary_key_str, ")", 0)
                 primary     == Replace(PySlice(primary_key_str, 0, pk_ck_split), "((", "")
                 clustering  == Replace(PyFrom(primary_key_str, pk_ck_split + 1), ")", "")
             IN  [has_keys       |-> TRUE,
                  primary_key    |-> StripEach(Split(primary, ",")),
                  clustering_key |-> StripEach(FilterNonEmpty(Split(clustering, ",")))]
        ELSE LET flat == Replace(Replace(primary_key_str, "(", ""), ")", "")
                 keys == StripEach(Split(flat, ","))
             IN  [has_keys       |-> TRUE,
                  primary_key    |-> <<keys[1]>>,
                  clustering_key |-> Tail(keys)]

\* SchemaProcessor._parse_primary_column
_parse_primary_column(primary_column_str) ==
    Split(Replace(Strip(primary_column_str, " ,"), " PRIMARY KEY", ""), " ")[1]

\* ret[keyspace][column_family] = meta, creating ret[keyspace] when asked to
SchemaPut(ret, keyspace, column_family, meta) ==
    LET cfs == IF DictHas(ret, keyspace) THEN DictGet(ret, keyspace) ELSE <<>>
    IN  DictSet(ret, keyspace, DictSet(cfs, column_family, meta))

\* The CREATE TABLE branch of the loop body of SchemaProcessor.process
SchemaCreateTable(st, line) ==
    IF Contains(line, "CREATE TABLE")
    THEN LET t   == _parse_create_table(line)
             cfs == IF DictHas(st.ret, t.keyspace) THEN DictGet(st.ret, t.keyspace) ELSE <<>>
         IN  [st EXCEPT !.keyspace = t.keyspace,
                        !.column_family = t.column_family,
                        !.ret = IF DictHas(cfs, t.column_family) THEN
                                    DictSet(st.ret, t.keyspace, cfs)
                                ELSE SchemaPut(st.ret, t.keyspace, t.column_family, EmptyMeta)]
    ELSE st

\* A variant of the guard below that never raises: a key line read without a
\* table-declaration context is then recorded under the keyspace None
SchemaContextIgnored(st) == FALSE

\* The guard of both key branches: "if not keyspace or not column_family: raise"
SchemaNoContext(st) == ~Truthy(st.keyspace) \/ ~Truthy(st.column_family)

\* The two PRIMARY KEY branches of the loop body of SchemaProcessor.process
SchemaKeyLine(st, line) ==
    IF Contains(line, "PRIMARY KEY (")
    THEN IF SchemaNoContext(st) THEN [st EXCEPT !.raised = TRUE]
         ELSE [st EXCEPT !.ret = SchemaPut(st.ret, st.keyspace, st.column_family,
                                           _parse_keys(line)),
                         !.keyspace = NONE, !.column_family = NONE]
    ELSE IF Contains(line, "PRIMARY KEY")
    THEN IF SchemaNoContext(st) THEN [st EXCEPT !.raised = TRUE]
         ELSE [st EXCEPT !.ret = SchemaPut(st.ret, st.keyspace, st.column_family,
                                           [has_keys       |-> TRUE,
                                            primary_key    |-> <<_parse_primary_column(line)>>,
                                            clustering_key |-> <<>>]),
                         !.keyspace = NONE, !.column_family = NONE]
    ELSE st

RECURSIVE SchemaLoop(_, _)
\* The loop of SchemaProcessor.process over schema.splitlines()
SchemaLoop(st, lines) ==
    IF lines = <<>> \/ st.raised THEN st
    ELSE SchemaLoop(SchemaKeyLine(SchemaCreateTable(st, Head(lines)), Head(lines)), Tail(lines))

\* SchemaProcessor.process: .raised, or the catalog in .ret
SchemaProcess(schema) ==
    SchemaLoop([ret |-> <<>>, keyspace |-> NONE, column_family |-> NONE, raised |-> FALSE],
               SplitLines(schema))

----------------------------------------------------------------------------
(* Config *)

\* config.tags = None, config.queries = None
NoneDict == <<<<NONE, NONE>>>>

NoneList == <<[start |-> NONE, parameters |-> <<>>]>>

\* Config.__init__; schema=None becomes {}
Config(top_n, rows_per_minute, order_by, min_count) ==
    [top_n |-> top_n, rows_per_minute |-> rows_per_minute, order_by |-> order_by,
     min_count |-> min_count, schema |-> <<>>, queries |-> NoneList, tags |-> NoneDict]

----------------------------------------------------------------------------
(* MessageProcessor *)

RECURSIVE BoundValuesLoop(_, _)
\* The loop of _get_bound_values: a token without ':' raises ValueError, which is
\* caught and only logged
BoundValuesLoop(ret, bound_values) ==
    IF bound_values = <<>> THEN ret
    ELSE LET kv == Split1(Head(bound_values), ":")
         IN  BoundValuesLoop(IF Len(kv) = 2
                             THEN DictSet(ret, Strip(kv[1], " "), Strip(kv[2], "'"))
                             ELSE ret,
                             Tail(bound_values))

\* MessageProcessor._get_bound_values
_get_bound_values(bound_values_str) ==
    BoundValuesLoop(<<>>, Split(Replace(Replace(bound_values_str, "[", ""), "]", ""), ","))

RECURSIVE PrimaryKeyLoop(_, _)
\* The loop of _get_primary_key: a field missing from the bound values raises
\* KeyError, which is caught and only logged, and the loop goes on
PrimaryKeyLoop(fields, bound_values) ==
    IF fields = <<>> THEN <<>>
    ELSE (IF DictHas(bound_values, Head(fields))
          THEN <<DictGet(bound_values, Head(fields))>> ELSE <<>>)
         \o PrimaryKeyLoop(Tail(fields), bound_values)

\* config.schema[keyspace][column_family]['primary_key'] does not raise KeyError
SchemaHasKeys(schema, keyspace, column_family) ==
    /\ DictHas(schema, keyspace)
    /\ DictHas(DictGet(schema, keyspace), column_family)
    /\ DictGet(DictGet(schema, keyspace), column_family).has_keys

\* MessageProcessor._get_primary_key.  The KeyError handler formats
\* ', '.join(config.tags), which raises TypeError when config.tags is None
_get_primary_key(bound_values, keyspace, column_family, cfg) ==
    IF SchemaHasKeys(cfg.schema, keyspace, column_family)
    THEN [raised |-> FALSE,
          value  |-> Join(PrimaryKeyLoop(
                              DictGet(DictGet(cfg.schema, keyspace), column_family).primary_key,
                              bound_values), "-")]
    ELSE IF cfg.tags = NoneDict THEN [raised |-> TRUE, value |-> NONE]
    ELSE [raised |-> FALSE, value |-> NONE]

RECURSIVE BuildCfsFirstWins(_, _, _)
\* A variant of the inner loop below in which the first keyspace that declares a
\* table keeps it, and no table is marked 'unknown'
BuildCfsFirstWins(cache, keyspace, cfs) ==
    IF cfs = <<>> THEN cache
    ELSE BuildCfsFirstWins(IF ~DictHas(cache, Head(cfs))
                           THEN DictSet(cache, Head(cfs), keyspace) ELSE cache,
                           keyspace, Tail(cfs))

RECURSIVE BuildCfs(_, _, _)
\* The inner loop of _build_keyspace_guesses
BuildCfs(cache, keyspace, cfs) ==
    IF cfs = <<>> THEN cache
    ELSE BuildCfs(IF ~DictHas(cache, Head(cfs)) THEN DictSet(cache, Head(cfs), keyspace)
                  ELSE DictSet(cache, Head(cfs), "unknown"),
                  keyspace, Tail(cfs))

RECURSIVE _build_keyspace_guesses(_, _)
\* MessageProcessor._build_keyspace_guesses, from the cache as it is
_build_keyspace_guesses(cache, schema) ==
    IF schema = <<>> THEN cache
    ELSE _build_keyspace_guesses(BuildCfs(cache, Head(schema)[1], DictKeys(Head(schema)[2])),
                                 Tail(schema))

RECURSIVE FirstMappedTag(_, _)
\* "for tag in tags: if tag in config.tags: return config.tags[tag]"; NONE when the
\* loop ends without returning
FirstMappedTag(tags, mapping) ==
    IF tags = <<>> THEN NONE
    ELSE IF DictHas(mapping, Head(tags)) THEN DictGet(mapping, Head(tags))
    ELSE FirstMappedTag(Tail(tags), mapping)

\* A variant of the test below that lets the tags override any table
UseTagsAlways(column_family, cfg, built) == cfg.tags # NoneDict /\ cfg.tags # <<>>

\* "config.tags and (column_family not in cls.CF_KEYSPACES or
\*  cls.CF_KEYSPACES[column_family] == 'unknown')"
UseTags(column_family, cfg, built) ==
    /\ cfg.tags # NoneDict
    /\ cfg.tags # <<>>
    /\ (~DictHas(built, column_family) \/ DictGet(built, column_family) = "unknown")

\* _guess_keyspace once CF_KEYSPACES is built: the tag loop, then the cache lookup
GuessFrom(column_family, tags, cfg, built) ==
    [cache    |-> built,
     keyspace |-> IF /\ UseTags(column_family, cfg, built)
                     /\ \E i \in 1 .. Len(tags) : DictHas(cfg.tags, tags[i])
                  THEN FirstMappedTag(tags, cfg.tags)
                  ELSE IF DictHas(built, column_family) THEN DictGet(built, column_family)
                  ELSE NONE]

\* MessageProcessor._guess_keyspace: the keyspace and the cache it leaves
_guess_keyspace(column_family, tags, cfg, cache) ==
    GuessFrom(column_family, tags, cfg,
              IF cache = <<>> THEN _build_keyspace_guesses(cache, cfg.schema) ELSE cache)

\* "keyspace, column_family = table.split('.')" raises ValueError unless there is
\* exactly one '.'
Dotted(parts, cache) ==
    IF Len(parts) # 2
    THEN [raised |-> TRUE, keyspace |-> NONE, column_family |-> NONE, cache |-> cache]
    ELSE [raised |-> FALSE, keyspace |-> Lower(parts[1]), column_family |-> Lower(parts[2]),
          cache |-> cache]

Guessed(column_family, g) ==
    [raised |-> FALSE, keyspace |-> g.keyspace, column_family |-> column_family,
     cache |-> g.cache]

\* MessageProcessor._get_keyspace_cf
_get_keyspace_cf(table, tags, cfg, cache) ==
    IF Contains(table, ".") THEN Dotted(Split(table, "."), cache)
    ELSE Guessed(Lower(table), _guess_keyspace(Lower(table), tags, cfg, cache))

----------------------------------------------------------------------------
(* QueryPattern *)

\* QueryPattern.matches
PatternMatches(query, pattern) == StartsWith(query, pattern.start)

RECURSIVE PatternLoop(_, _, _)
\* The loop of QueryPattern.process over pattern['parameters']
PatternLoop(query, bound_values, names) ==
    IF names = <<>> THEN [query |-> query, bound_values |-> bound_values]
    ELSE LET name  == Head(names)
             start == Find(query, "=", Find(query, name, 0) + Len(name)) + 1
             temp  == Strip(PyFrom(query, start), " ")
             e1    == Find(temp, " ", 0)
             e2    == IF e1 = -1 THEN Find(temp, ",", 0) ELSE e1
             end   == IF e2 = -1 THEN Find(temp, ";", 0) ELSE e2
             value == PySlice(temp, 0, end)
         IN  IF end = -1 THEN PatternLoop(query, bound_values, Tail(names))
             ELSE PatternLoop(Replace(query, value, "?"),
                              DictSet(bound_values, Lower(name), Strip(value, "'")),
                              Tail(names))

\* QueryPattern.process
PatternProcess(query, pattern) == PatternLoop(query, <<>>, pattern.parameters)

RECURSIVE FirstPattern(_, _)
\* "for pattern in config.queries: if QueryPattern.matches(query, pattern): ...; break"
FirstPattern(query, patterns) ==
    IF patterns = <<>> THEN [query |-> query, bound_values |-> <<>>]
    ELSE IF PatternMatches(query, Head(patterns)) THEN PatternProcess(query, Head(patterns))
    ELSE FirstPattern(query, Tail(patterns))

----------------------------------------------------------------------------
(* The statement extractors *)

\* The dict process_message starts from (ret), before ret.update(data).  duration
\* is None there; every extractor overwrites it with an int, and it is 0 here so
\* that the field holds integers only
EventDefaults ==
    [type |-> NONE, timestamp |-> NONE, duration |-> 0, query |-> NONE,
     bound_values |-> <<>>, primary_key |-> NONE, keyspace |-> NONE, column_family |-> NONE]

Raised(cache) == [raised |-> TRUE, data |-> EventDefaults, cache |-> cache]

\* SelectMessageProcessor.handles
SelectHandles(log) == StartsWith(log.query, "SELECT") \/ StartsWith(log.query, "select")

\* BatchMessageProcessor.handles
BatchHandles(log) == StartsWith(log.query, "BEGIN BATCH") \/ StartsWith(log.query, "begin batch")

\* A variant of InsertMessageProcessor.handles that looks for the keyword anywhere
\* in the statement
InsertHandlesAnywhere(log) == Contains(log.query, "INSERT") \/ Contains(log.query, "insert")

\* InsertMessageProcessor.handles
InsertHandles(log) == StartsWith(log.query, "INSERT") \/ StartsWith(log.query, "insert")

\* DeleteMessageProcessor.handles
DeleteHandles(log) == StartsWith(log.query, "DELETE") \/ StartsWith(log.query, "delete")

\* UpdateMessageProcessor.handles
UpdateHandles(log) == StartsWith(log.query, "UPDATE") \/ StartsWith(log.query, "update")

\* A variant of SelectMessageProcessor._get_table that knows only the last of its
\* four forms, the table segment that runs to the ';'
SelectGetTableToSemicolon(query) == str_slice(query, " from ", ";")

\* SelectMessageProcessor._get_table
SelectGetTable(query) ==
    LET t1 == str_slice(query, " FROM ", " ")
        t2 == IF Truthy(t1) THEN t1 ELSE str_slice(query, " from ", " ")
        t3 == IF Truthy(t2) THEN t2 ELSE str_slice(query, " FROM ", ";")
    IN  IF Truthy(t3) THEN t3 ELSE str_slice(query, " from ", ";")

\* InsertMessageProcessor._get_table
InsertGetTable(query) ==
    LET t1 == str_slice(query, "INSERT INTO ", " ")
    IN  IF Truthy(t1) THEN t1 ELSE str_slice(query, "insert into ", " ")

\* The dict SELECT and INSERT return, or the exception _get_primary_key raised
Keyed(type, query, bound_values, kc, pk) ==
    IF pk.raised THEN Raised(kc.cache)
    ELSE [raised |-> FALSE,
          data   |-> [EventDefaults EXCEPT !.type = type, !.query = query,
                          !.bound_values = bound_values, !.keyspace = kc.keyspace,
                          !.column_family = kc.column_family, !.primary_key = pk.value],
          cache  |-> kc.cache]

\* "if bound_values and keyspace and column_family: primary_key = ... else: None"
Resolved(type, query, bound_values, cfg, kc) ==
    IF kc.raised THEN Raised(kc.cache)
    ELSE Keyed(type, query, bound_values, kc,
               IF bound_values # <<>> /\ Truthy(kc.keyspace) /\ Truthy(kc.column_family)
               THEN _get_primary_key(bound_values, kc.keyspace, kc.column_family, cfg)
               ELSE [raised |-> FALSE, value |-> NONE])

\* The part SELECT and INSERT share: from the table segment to the primary key
ResolveAndKey(type, query, bound_values, table_segment, log, cfg, cache) ==
    Resolved(type, query, bound_values, cfg,
             IF Truthy(table_segment)
             THEN _get_keyspace_cf(table_segment, log.tags, cfg, cache)
             ELSE [raised |-> FALSE, keyspace |-> NONE, column_family |-> NONE,
                   cache |-> cache])

\* "duration: int(log['duration'])": ValueError unless the text is a number
WithDuration(r, log) ==
    IF r.raised THEN r
    ELSE IF ~IntOk(log.duration) THEN Raised(r.cache)
    ELSE [r EXCEPT !.data.duration = IntOf(log.duration)]

\* The query and the bound values SELECT works with: from the log's bound-value
\* section, else from the first query pattern that matches
SelectBound(log, cfg) ==
    IF Truthy(log.bound_values)
    THEN [query |-> log.query, bound_values |-> _get_bound_values(log.bound_values)]
    ELSE IF cfg.queries # NoneList /\ cfg.queries # <<>>
    THEN FirstPattern(log.query, cfg.queries)
    ELSE [query |-> log.query, bound_values |-> <<>>]

SelectFrom(qb, log, cfg, cache) ==
    WithDuration(ResolveAndKey("SELECT", qb.query, qb.bound_values, SelectGetTable(qb.query),
                               log, cfg, cache),
                 log)

\* SelectMessageProcessor.process: int(log['duration']) comes first
SelectProcess(log, cfg, cache) ==
    IF ~IntOk(log.duration) THEN Raised(cache)
    ELSE SelectFrom(SelectBound(log, cfg), log, cfg, cache)

\* InsertMessageProcessor.process: int(log['duration']) comes last, after the
\* keyspace resolution has touched the cache
InsertProcess(log, cfg, cache) ==
    WithDuration(ResolveAndKey("INSERT", log.query,
                               IF Truthy(log.bound_values)
                               THEN _get_bound_values(log.bound_values) ELSE <<>>,
                               InsertGetTable(log.query), log, cfg, cache),
                 log)

\* A variant of the three extractors below that takes the bound-value section of
\* the log line for the primary key
PlainProcessKeyed(type, log, cache) ==
    IF ~IntOk(log.duration) THEN Raised(cache)
    ELSE [raised |-> FALSE,
          data   |-> [EventDefaults EXCEPT !.type = type, !.duration = IntOf(log.duration),
                                           !.query = log.query,
                                           !.primary_key = log.bound_values],
          cache  |-> cache]

\* BatchMessageProcessor.process, DeleteMessageProcessor.process and
\* UpdateMessageProcessor.process: type, duration and query only
PlainProcess(type, log, cache) ==
    IF ~IntOk(log.duration) THEN Raised(cache)
    ELSE [raised |-> FALSE,
          data   |-> [EventDefaults EXCEPT !.type = type, !.duration = IntOf(log.duration),
                                           !.query = log.query],
          cache  |-> cache]

BatchProcess(log, cfg, cache) == PlainProcess("BATCH", log, cache)

DeleteProcess(log, cfg, cache) == PlainProcess("DELETE", log, cache)

UpdateProcess(log, cfg, cache) == PlainProcess("UPDATE", log, cache)

\* The processors list, in its order
processors == <<"SELECT", "BATCH", "INSERT", "DELETE", "UPDATE">>

Handles(p, log) ==
    CASE p = "SELECT" -> SelectHandles(log)
      [] p = "BATCH"  -> BatchHandles(log)
      [] p = "INSERT" -> InsertHandles(log)
      [] p = "DELETE" -> DeleteHandles(log)
      [] p = "UPDATE" -> UpdateHandles(log)

Process(p, log, cfg, cache) ==
    CASE p = "SELECT" -> SelectProcess(log, cfg, cache)
      [] p = "BATCH"  -> BatchProcess(log, cfg, cache)
      [] p = "INSERT" -> InsertProcess(log, cfg, cache)
      [] p = "DELETE" -> DeleteProcess(log, cfg, cache)
      [] p = "UPDATE" -> UpdateProcess(log, cfg, cache)

----------------------------------------------------------------------------
(* get_log and process_message *)

LogRaised == [raised |-> TRUE, duration |-> NONE, counts |-> NONE, bound_values |-> NONE,
              query |-> NONE]

\* get_log
get_log(buff) ==
    LET ptr0   == Find(buff, "Query too slow, took ", 0)
        pos_ms == Find(buff, " ms: ", ptr0)
        ptr1   == pos_ms + 5
        end    == Find(buff, "]", ptr1)
        hasCnt == Ch(buff, pos_ms + 5) = "["
        counts == IF hasCnt THEN PySlice(buff, ptr1, end + 1) ELSE NONE
        ptr    == IF hasCnt THEN end + 2 ELSE ptr1
        s1     == Find(buff, "; [", ptr)
        start  == IF s1 = -1 THEN Find(buff, "] [", ptr) ELSE s1
        hasBv  == Truthy(counts) /\ start # -1
    IN  IF ptr0 = -1 THEN LogRaised
        ELSE IF pos_ms = -1 THEN LogRaised
        ELSE IF pos_ms + 5 >= Len(buff) THEN LogRaised      \* buff[pos_ms + 5]: IndexError
        ELSE [raised       |-> FALSE,
              duration     |-> PySlice(buff, ptr0 + 21, pos_ms),
              counts       |-> counts,
              bound_values |-> IF hasBv THEN PyFrom(buff, start + 2) ELSE NONE,
              query        |-> PySlice(buff, ptr, IF hasBv THEN start + 1 ELSE Len(buff))]

\* datetime.strptime(timestamp, '%Y-%m-%dT%H:%M:%S.%fZ') accepts the text (the
\* zero-padded form the search backend exports)
TimestampOk(timestamp) ==
    /\ Len(timestamp) = 24
    /\ \A i \in {4, 7} : Ch(timestamp, i) = "-"
    /\ Ch(timestamp, 10) = "T"
    /\ \A i \in {13, 16} : Ch(timestamp, i) = ":"
    /\ Ch(timestamp, 19) = "."
    /\ Ch(timestamp, 23) = "Z"
    /\ \A i \in (0 .. 22) \ {4, 7, 10, 13, 16, 19} : Contains(DIGITS, Ch(timestamp, i))

\* datum['timestamp'].strftime('%Y-%m-%d %H:%M') of a timestamp strptime accepted
MinuteOf(timestamp) == PySlice(timestamp, 0, 10) \o " " \o PySlice(timestamp, 11, 16)

RECURSIVE Dispatch(_, _, _, _)
\* "for processor in processors: if processor.handles(log): ...; break";
\* no processor: raise Exception('No processor available')
Dispatch(ps, log, cfg, cache) ==
    IF ps = <<>> THEN Raised(cache)
    ELSE IF Handles(Head(ps), log) THEN Process(Head(ps), log, cfg, cache)
    ELSE Dispatch(Tail(ps), log, cfg, cache)

\* "ret.update(data)" over the defaults, which hold the timestamp
Stamped(r, timestamp) == IF r.raised THEN r ELSE [r EXCEPT !.data.timestamp = timestamp]

\* process_message after get_log: "log['tags'] = tags" and the dispatch
Classified(timestamp, log, tags, cfg, cache) ==
    IF log.raised THEN Raised(cache)
    ELSE Stamped(Dispatch(processors, log @@ [tags |-> tags], cfg, cache), timestamp)

\* process_message: .raised, or the event in .data; and the cache it leaves
process_message(timestamp, message, tags, cfg, cache) ==
    IF ~TimestampOk(timestamp) THEN Raised(cache)
    ELSE Classified(timestamp, get_log(message), tags, cfg, cache)

----------------------------------------------------------------------------
(* process_file: one iteration of the loop over data['hits']['hits'] *)

\* A hit: NONE for a key that _source lacks
Hit(timestamp, message, at_message, has_tags, tags) ==
    [timestamp |-> timestamp, message |-> message, at_message |-> at_message,
     has_tags |-> has_tags, tags |-> tags]

\* A variant of the handler below that appends whatever process_message left
CaughtAppends(r) == [status |-> "appended", data |-> r.data, cache |-> r.cache]

\* "try: data = process_message(...); ret.append(data); except Exception: warn"
Caught(r) ==
    IF r.raised THEN [status |-> "exception", data |-> EventDefaults, cache |-> r.cache]
    ELSE [status |-> "appended", data |-> r.data, cache |-> r.cache]

\* The iteration once the three fields are read
HitFields(timestamp, message, tags, cfg, cache) ==
    IF timestamp = NONE \/ message = NONE
    THEN [status |-> "invalid_hit", data |-> EventDefaults, cache |-> cache]
    ELSE IF ~Contains(message, "Query too slow")
    THEN [status |-> "not_slow", data |-> EventDefaults, cache |-> cache]
    ELSE Caught(process_message(timestamp, message, tags, cfg, cache))

\* What one iteration does with a hit: "appended" with the event, or why not
ProcessHit(hit, cfg, cache) ==
    HitFields(hit.timestamp,
              IF hit.message # NONE THEN hit.message ELSE hit.at_message,
              IF hit.has_tags THEN hit.tags ELSE <<>>,
              cfg, cache)

----------------------------------------------------------------------------
(* analyze *)

\* "datum.get(key, '') or ''"
OrEmpty(x) == IF x = NONE THEN "" ELSE x

\* A variant of the accumulation below that starts every time from a fresh entry
AccumulateFresh(rollup, key, fresh, duration) ==
    DictSet(rollup, key, [fresh EXCEPT !.count = @ + 1, !.duration = @ + duration])

\* A variant of the accumulation below that counts the event and drops its duration
AccumulateCountOnly(rollup, key, fresh, duration) ==
    LET e == IF DictHas(rollup, key) THEN DictGet(rollup, key) ELSE fresh
    IN  DictSet(rollup, key, [e EXCEPT !.count = @ + 1])

\* A variant of the accumulation below that keeps the duration of the latest event
AccumulateLatest(rollup, key, fresh, duration) ==
    LET e == IF DictHas(rollup, key) THEN DictGet(rollup, key) ELSE fresh
    IN  DictSet(rollup, key, [e EXCEPT !.count = @ + 1, !.duration = duration])

\* The create-if-absent and the two "+=" of one rollup
Accumulate(rollup, key, fresh, duration) ==
    LET e == IF DictHas(rollup, key) THEN DictGet(rollup, key) ELSE fresh
    IN  DictSet(rollup, key, [e EXCEPT !.count = @ + 1, !.duration = @ + duration])

EmptyRollups ==
    [query |-> <<>>, query_pk |-> <<>>, primary_key |-> <<>>, volume |-> <<>>,
     volume_top |-> <<>>]

\* The body of the loop "for datum in data"
FoldDatum(an, datum) ==
    LET query         == datum.query
        primary_key   == OrEmpty(datum.primary_key)
        keyspace      == OrEmpty(datum.keyspace)
        column_family == OrEmpty(datum.column_family)
        minute        == MinuteOf(datum.timestamp)
        query_pk      == query \o "." \o primary_key
        ks_cf_pk      == keyspace \o "." \o column_family \o "." \o primary_key
        inner         == IF DictHas(an.volume_top, minute)
                         THEN DictGet(an.volume_top, minute) ELSE <<>>
    IN  [query |->
            Accumulate(an.query, query,
                       [count |-> 0, duration |-> 0, query |-> query, keyspace |-> keyspace,
                        column_family |-> column_family],
                       datum.duration),
         query_pk |->
            IF primary_key # ""
            THEN Accumulate(an.query_pk, query_pk,
                            [count |-> 0, duration |-> 0, query |-> query,
                             primary_key |-> primary_key, keyspace |-> keyspace,
                             column_family |-> column_family],
                            datum.duration)
            ELSE an.query_pk,
         primary_key |->
            IF primary_key # "" /\ keyspace # "" /\ column_family # ""
            THEN Accumulate(an.primary_key, ks_cf_pk,
                            [count |-> 0, duration |-> 0, keyspace |-> keyspace,
                             column_family |-> column_family, primary_key |-> primary_key],
                            datum.duration)
            ELSE an.primary_key,
         volume |->
            Accumulate(an.volume, minute, [count |-> 0, duration |-> 0, minute |-> minute],
                       datum.duration),
         volume_top |->
            DictSet(an.volume_top, minute,
                    Accumulate(inner, query_pk,
                               [count |-> 0, duration |-> 0, query |-> query,
                                primary_key |-> primary_key, minute |-> minute],
                               datum.duration))]

RECURSIVE Fold(_, _)
\* The loop "for datum in data"
Fold(an, data) ==
    IF data = <<>> THEN an ELSE Fold(FoldDatum(an, Head(data)), Tail(data))

\* Two variants of the min-count filter below: one that keeps every entry, and one
\* that asks for more than min_count occurrences
MinCountOff(rollup, min_count) == rollup

MinCountStrict(rollup, min_count) == SelectSeq(rollup, LAMBDA kv : kv[2].count > min_count)

\* "{k: v for k, v in rollup.items() if v['count'] >= config.min_count}"
MinCount(rollup, min_count) == SelectSeq(rollup, LAMBDA kv : kv[2].count >= min_count)

\* A variant of the division below that rounds to the nearest integer
IntDivRound(a, b) == (2 * a + b) \div (2 * b)

\* int(a / b) for b > 0: true division, then truncation toward zero
IntDiv(a, b) == IF a >= 0 THEN a \div b ELSE 0 - ((0 - a) \div b)

\* "v['avg_duration'] = int(v['duration'] / v['count'])" for every entry of a rollup
WithAvg(rollup) ==
    [i \in 1 .. Len(rollup) |->
        <<rollup[i][1],
          rollup[i][2] @@ [avg_duration |-> IntDiv(rollup[i][2].duration, rollup[i][2].count)]>>]

RECURSIVE InsertSortedBefore(_, _, _)
\* A variant of the insertion below that places x before the entries with an equal key
InsertSortedBefore(sortedSeq, x, order_by) ==
    IF sortedSeq = <<>> THEN <<x>>
    ELSE IF Head(sortedSeq)[order_by] > x[order_by]
    THEN <<Head(sortedSeq)>> \o InsertSortedBefore(Tail(sortedSeq), x, order_by)
    ELSE <<x>> \o sortedSeq

RECURSIVE InsertSorted(_, _, _)
\* x placed after every entry whose key is not smaller: equal keys keep their order
InsertSorted(sortedSeq, x, order_by) ==
    IF sortedSeq = <<>> THEN <<x>>
    ELSE IF Head(sortedSeq)[order_by] >= x[order_by]
    THEN <<Head(sortedSeq)>> \o InsertSorted(Tail(sortedSeq), x, order_by)
    ELSE <<x>> \o sortedSeq

RECURSIVE SortedFrom(_, _, _)
SortedFrom(acc, entries, order_by) ==
    IF entries = <<>> THEN acc
    ELSE SortedFrom(InsertSorted(acc, Head(entries), order_by), Tail(entries), order_by)

\* A variant of the sort below that leaves the entries in first-seen order
Unsorted(entries, order_by) == entries

\* sorted(entries, key=lambda i: i[order_by], reverse=True): a stable sort
SortedDesc(entries, order_by) == SortedFrom(<<>>, entries, order_by)

\* entries[:n]
Take(entries, n) ==
    LET m == IF n < 0 THEN Max({0, Len(entries) + n}) ELSE Min({n, Len(entries)})
    IN  SubSeq(entries, 1, m)

\* "sorted(rollup.values(), ...)[:n]"
Ranked(rollup, order_by, n) == Take(SortedDesc(DictValues(rollup), order_by), n)

RECURSIVE Chain(_)
\* list(itertools.chain.from_iterable(lists))
Chain(lists) == IF lists = <<>> THEN <<>> ELSE Head(lists) \o Chain(Tail(lists))

\* The state of analysis after the min-count filter and the averages
Filtered(an, cfg) ==
    [query       |-> WithAvg(MinCount(an.query, cfg.min_count)),
     query_pk    |-> WithAvg(MinCount(an.query_pk, cfg.min_count)),
     primary_key |-> WithAvg(MinCount(an.primary_key, cfg.min_count)),
     volume      |-> WithAvg(MinCount(an.volume, cfg.min_count)),
     volume_top  |-> [i \in 1 .. Len(an.volume_top) |->
                        <<an.volume_top[i][1],
                          WithAvg(MinCount(an.volume_top[i][2], cfg.min_count))>>]]

\* The "Sort and limit" part
SortAndLimit(an, cfg) ==
    [query       |-> Ranked(an.query, cfg.order_by, cfg.top_n),
     query_pk    |-> Ranked(an.query_pk, cfg.order_by, cfg.top_n),
     primary_key |-> Ranked(an.primary_key, cfg.order_by, cfg.top_n),
     volume      |-> DictValues(an.volume),
     volume_top  |-> Chain([i \in 1 .. Len(an.volume_top) |->
                              Ranked(an.volume_top[i][2], cfg.order_by,
                                     cfg.rows_per_minute)])]

\* analyze(data, config)
analyze(data, cfg) == SortAndLimit(Filtered(Fold(EmptyRollups, data), cfg), cfg)

----------------------------------------------------------------------------
(* Reporter *)

\* The rows of the five CSV files, without the header rows
ReportRows(an) ==
    [slow_queries |->
        [i \in 1 .. Len(an.query) |->
            <<an.query[i].count, an.query[i].duration, an.query[i].avg_duration,
              an.query[i].query>>],
     slow_primary_keys |->
        [i \in 1 .. Len(an.query_pk) |->
            <<an.query_pk[i].count, an.query_pk[i].duration, an.query_pk[i].avg_duration,
              an.query_pk[i].primary_key, an.query_pk[i].query>>],
     primary_keys |->
        [i \in 1 .. Len(an.primary_key) |->
            <<an.primary_key[i].count, an.primary_key[i].duration,
              an.primary_key[i].avg_duration, an.primary_key[i].keyspace,
              an.primary_key[i].column_family, an.primary_key[i].primary_key>>],
     volume |->
        [i \in 1 .. Len(an.volume) |->
            <<an.volume[i].minute, an.volume[i].count, an.volume[i].duration,
              an.volume[i].avg_duration>>],
     volume_top_n |->
        [i \in 1 .. Len(an.volume_top) |->
            <<an.volume_top[i].minute, an.volume_top[i].count, an.volume_top[i].duration,
              an.volume_top[i].avg_duration, an.volume_top[i].primary_key,
              an.volume_top[i].query>>]]

NoRows ==
    [slow_queries |-> <<>>, slow_primary_keys |-> <<>>, primary_keys |-> <<>>,
     volume |-> <<>>, volume_top_n |-> <<>>]

RECURSIVE Str(_)
\* str(n) of an int, as csv.writer writes a number
Str(n) ==
    IF n < 0 THEN "-" \o Str(0 - n)
    ELSE IF n < 10 THEN Ch(DIGITS, n)
    ELSE Str(n \div 10) \o Ch(DIGITS, n % 10)

\* The cells of a row of primary_keys.csv as csv.reader gives them back: every cell
\* is text, the three numbers are their decimal digits (the quoting csv.writer adds
\* to a text cell, csv.reader takes off)
PrimaryKeyCells(row) == <<Str(row[1]), Str(row[2]), Str(row[3]), row[4], row[5], row[6]>>

\* The header row of primary_keys.csv
PRIMARY_KEY_HEADERS ==
    <<"Count", "Duration", "Avg. Duration", "Keyspace", "Column Family", "Primary Key">>

\* primary_keys.csv as a reader sees it: the header row, then the rows of the report
PrimaryKeysCsv(rows) ==
    <<PRIMARY_KEY_HEADERS>> \o [i \in 1 .. Len(rows) |-> PrimaryKeyCells(rows[i])]

----------------------------------------------------------------------------
(* find_pk_nodes *)

\* read_csv: the header skipped, then one key per row that has three cells or more
\* and no 'truncated output' in the third
read_csv(csv_file) ==
    LET rows == SelectSeq(Tail(csv_file),
                          LAMBDA row : Len(row) >= 3 /\ ~Contains(row[3], "truncated output"))
    IN  [i \in 1 .. Len(rows) |->
            [keyspace |-> rows[i][1], column_family |-> rows[i][2],
             primary_key |-> rows[i][3]]]

----------------------------------------------------------------------------
(* Bounds *)

\* Hits in the data files of a run of the whole pipeline
MaxHits == 1

\* Events handed to analyze when the aggregation is checked
MaxEvents == 3

\* Table declarations in a generated schema dump
MaxBlocks == 2

\* Largest top_n, rows_per_minute and min_count tried
MaxTopN == 2

MaxRowsPerMinute == 1

MaxMinCount == 2

\* Hits in the data file when the isolation of failing records is checked
MaxFileHits == 2

\* Hits in the data file when the keyspace of a bare table name is checked
MaxGuessHits == 2

\* Hits in the data file when the query patterns are checked
MaxPatternHits == 2

\* Events handed to analyze when the fold is checked
MaxFoldEvents == 3

\* Callers of _guess_keyspace that run side by side
MaxParsers == 2

\* Calls of _guess_keyspace each of them makes
MaxCalls == 2

----------------------------------------------------------------------------
(* Inputs: schema dumps *)

\* One table declaration of a dump.  form: how the key is declared;
\* "stray" is a key line with no CREATE TABLE line before it
Block(keyspace, table, form, pk) ==
    [keyspace |-> keyspace, table |-> table, form |-> form, pk |-> pk]

Forms == {"composite", "composite_indented", "flat", "inline", "none"}

\* The key line of a block, as cqlsh writes it (indented) or flush left
KeyLine(b) ==
    CASE b.form = "composite"          -> "PRIMARY KEY ((" \o b.pk \o ", b), c)\n"
      [] b.form = "composite_indented" -> "    PRIMARY KEY ((" \o b.pk \o ", b), c)\n"
      [] b.form = "flat"               -> "    PRIMARY KEY (" \o b.pk \o ", c)\n"
      [] b.form = "stray"              -> "    PRIMARY KEY (" \o b.pk \o ", c)\n"
      [] b.form = "inline"             -> "    " \o b.pk \o " text PRIMARY KEY,\n"
      [] b.form = "none"               -> ""

RenderBlock(b) ==
    IF b.form = "stray" THEN KeyLine(b)
    ELSE "CREATE TABLE " \o b.keyspace \o "." \o b.table \o " (\n"
         \o "    c int,\n" \o KeyLine(b) \o ") WITH comment = '';\n"

RECURSIVE RenderSchema(_)
RenderSchema(blocks) ==
    IF blocks = <<>> THEN "" ELSE RenderBlock(Head(blocks)) \o RenderSchema(Tail(blocks))

\* What a block declares, by CQL's rules
DeclaredPartition(b) ==
    IF b.form \in {"composite", "composite_indented"} THEN <<b.pk, "b">>
    ELSE IF b.form = "none" THEN <<>>
    ELSE <<b.pk>>

DeclaredClustering(b) == IF b.form \in {"inline", "none"} THEN <<>> ELSE <<"c">>

SeqsUpTo(S, n) == UNION {[1 .. k -> S] : k \in 0 .. n}

\* The dumps of the pipeline runs
MainSchemas ==
    { <<Block("k1", "t", "composite", "a"), Block("k1", "u", "inline", "a"),
        Block("k2", "u", "flat", "a"), Block("ks1", "users", "inline", "user_id")>>,
      <<Block("k1", "t", "composite_indented", "a")>>,
      <<Block("k1", "t", "none", "a")>>,
      <<>> }

\* The dumps of the schema runs: every sequence of up to MaxBlocks blocks
SchemaBlocks ==
    {Block(k, "t", f, "a") : k \in {"k1", "k2"}, f \in Forms}
        \cup {Block("k1", "t", "stray", "a")}

GeneratedSchemas == SeqsUpTo(SchemaBlocks, MaxBlocks)

----------------------------------------------------------------------------
(* Inputs: hits *)

T1 == "2020-01-01T10:00:00.000Z"

T2 == "2020-01-01T10:01:30.000Z"

Slow(duration, rest) == "Query too slow, took " \o duration \o " ms: " \o rest

\* A well-formed hit
H(timestamp, message, tags) == Hit(timestamp, message, NONE, TRUE, tags)

MainHits ==
    { H(T1, Slow("45", "SELECT * FROM ks1.users WHERE user_id=?; [1 bound values] [user_id:'u1']"), <<>>),
      H(T1, Slow("45", "[1 bound values] SELECT * FROM ks1.users WHERE user_id=?; [user_id:'u1']"), <<>>),
      H(T1, Slow("500", "[3 bound values] SELECT * FROM k1.t WHERE a=? AND b=? AND c=?; [a:1, b:2, c:3]"), <<>>),
      H(T1, Slow("300", "[2 bound values] SELECT * FROM k1.t WHERE a=? AND c=?; [a:1, c:3]"), <<>>),
      H(T1, Slow("100", "[1 bound values] SELECT * FROM k1.t WHERE c=?; [c:3]"), <<>>),
      H(T1, Slow("45", "[2 bound values] select * from t where a=? and b=?; [a:'x', b:'y']"), <<"w">>),
      H(T1, Slow("45", "[1 bound values] SELECT * FROM u WHERE a=?; [a:1]"), <<>>),
      H(T1, Slow("45", "[1 bound values] SELECT * FROM u WHERE a=?; [a:1]"), <<"x", "w">>),
      H(T1, Slow("45", "SELECT * FROM u LIMIT 10;"), <<"x">>),
      H(T2, Slow("45", "[2 bound values] INSERT INTO k1.t (a, b) VALUES (?, ?); [a:1, b:2]"), <<>>),
      H(T2, Slow("45", "[1 bound values] INSERT INTO k1.t (a, c) VALUES (?, ?); [a:1]"), <<>>),
      H(T2, Slow("45", "[2 bound values] DELETE FROM k1.t WHERE a=? AND b=?; [a:1, b:2]"), <<>>),
      H(T2, Slow("45", "[3 bound values] UPDATE k1.t SET c=? WHERE a=? AND b=?; [c:3, a:1, b:2]"), <<>>),
      H(T2, Slow("45", "[2 bound values] BEGIN BATCH INSERT INTO k1.t (a, b) VALUES (?, ?); APPLY BATCH; [a:1, b:2]"), <<>>),
      H(T2, Slow("45", "SELECT * FROM k1.t WHERE a=1 AND b=2;"), <<>>),
      H(T2, Slow("45", "DELETE FROM k1.t WHERE a=1 AND b=2;"), <<>>),
      H(T2, Slow("500", "[1 bound values] SELECT * FROM k1.u WHERE a=?; [a:'x']"), <<>>),
      H(T2, Slow("45", "TRUNCATE k1.t;"), <<>>) }

\* The tag mappings and the query patterns of the pipeline runs
MainTags == {NoneDict, <<<<"w", "k2">>>>}

MainQueries ==
    {NoneList,
     <<[start |-> "SELECT * FROM k1.t WHERE a", parameters |-> <<"a", "b">>],
       [start |-> "DELETE FROM k1.t WHERE a", parameters |-> <<"a", "b">>]>>}

\* The hits of the aggregation runs: three queries, two minutes, rows that share a
\* query, a primary key or both
AnalyzeHits ==
    { H(T1, Slow("500", "[2 bound values] SELECT * FROM k1.t WHERE a=? AND b=?; [a:1, b:2]"), <<>>),
      H(T2, Slow("100", "[2 bound values] SELECT * FROM k1.t WHERE a=? AND b=?; [a:9, b:2]"), <<>>),
      H(T1, Slow("300", "[2 bound values] DELETE FROM k1.t WHERE a=? AND b=?; [a:1, b:2]"), <<>>),
      H(T1, Slow("100", "[2 bound values] INSERT INTO k1.t (a, b) VALUES (?, ?); [a:1, b:2]"), <<>>),
      H(T2, Slow("300", "[2 bound values] SELECT * FROM k1.t WHERE a=? AND b=?; [a:1, b:2]"), <<>>),
      H(T2, Slow("7", "[2 bound values] UPDATE k1.t SET c=0 WHERE a=? AND b=?; [a:1, b:2]"), <<>>) }

AnalyzeSchema == <<Block("k1", "t", "composite", "a")>>

\* Records of a data file that process_file keeps: a SELECT and an INSERT with their
\* bound values, a SELECT of a table named without its keyspace, and a lower-case
\* DELETE in a hit that has "@message" instead of "message" and no tags
GoodHits ==
    { H(T1, Slow("500", "[2 bound values] SELECT * FROM k1.t WHERE a=? AND b=?; [a:1, b:2]"), <<>>),
      H(T2, Slow("100", "[2 bound values] INSERT INTO k1.t (a, b) VALUES (?, ?); [a:1, b:2]"), <<>>),
      H(T2, Slow("300", "[2 bound values] SELECT * FROM t WHERE a=? AND b=?; [a:3, b:4]"), <<>>),
      Hit(T1, NONE, Slow("7", "delete from k1.t where a=1;"), FALSE, <<>>) }

\* A statement no processor handles
UnhandledHits == { H(T1, Slow("50", "TRUNCATE k1.t;"), <<>>) }

\* Statements whose keyword is neither all upper case nor all lower case
MixedCaseHits ==
    { H(T1, Slow("50", "[2 bound values] Select * FROM k1.t WHERE a=? AND b=?; [a:1, b:2]"), <<>>),
      H(T2, Slow("50", "[2 bound values] Insert Into k1.t (a, b) VALUES (?, ?); [a:1, b:2]"), <<>>) }

\* No "Query too slow" at all, and "Query too slow" without ", took "
NoMarkerHits ==
    { H(T1, "Compacting large partition k1/t:1", <<>>),
      H(T1, "Query too slow: SELECT * FROM k1.t;", <<>>) }

NoDelimiterHits == { H(T1, "Query too slow, took 50 ms SELECT * FROM k1.t;", <<>>) }

BadDurationHits == { H(T1, Slow("fast", "SELECT * FROM k1.t;"), <<>>) }

BadTimestampHits == { H("yesterday", Slow("50", "SELECT * FROM k1.t;"), <<>>) }

\* _source without "@timestamp", and _source with neither "message" nor "@message"
AbsentFieldHits ==
    { Hit(NONE, Slow("50", "SELECT * FROM k1.t;"), NONE, TRUE, <<>>),
      Hit(T1, NONE, NONE, TRUE, <<>>) }

FailingHits ==
    UnhandledHits \cup MixedCaseHits \cup NoMarkerHits \cup NoDelimiterHits
    \cup BadDurationHits \cup BadTimestampHits \cup AbsentFieldHits

FileHits == GoodHits \cup FailingHits

\* Query patterns: two for SELECTs of k1.t, the second a prefix of the first, and
\* one for INSERTs into k1.t
SelectByA == [start |-> "SELECT * FROM k1.t WHERE a", parameters |-> <<"a", "b">>]

SelectAny == [start |-> "SELECT * FROM k1.t", parameters |-> <<"B", "a">>]

InsertAny == [start |-> "INSERT INTO k1.t", parameters |-> <<"a">>]

\* No --queries file, and the three patterns with the two SELECT patterns in
\* either order
PatternQueries ==
    {NoneList, <<SelectByA, SelectAny, InsertAny>>, <<SelectAny, SelectByA, InsertAny>>}

\* Statements logged with their values in the text: values ended by a space and by
\* the final semicolon, quoted values and blanks around '=', a value with nothing
\* after it, a semicolon followed by more text, a comma followed by more text,
\* upper-case field names, another table, and an INSERT
LiteralStatements ==
    { "SELECT * FROM k1.t WHERE a=7 AND b=8;",
      "SELECT * FROM k1.t WHERE a='x' AND b = 'y';",
      "SELECT * FROM k1.t WHERE a=7 AND b=8",
      "SELECT * FROM k1.t WHERE a=7 AND b=8; SELECT * FROM k2.u;",
      "SELECT * FROM k1.t WHERE a=7 AND b=8,9 LIMIT 5;",
      "SELECT * FROM k1.t WHERE B=8 AND a=7;",
      "SELECT * FROM k1.u WHERE a=7;",
      "INSERT INTO k1.t (a, b) VALUES (7, 8);" }

\* The records of the pattern runs: each literal statement, and a SELECT and an
\* INSERT logged with their bound-value section
PatternHits ==
    {H(T1, Slow("45", q), <<>>) : q \in LiteralStatements}
        \cup { H(T1, Slow("45", "[2 bound values] SELECT * FROM k1.t WHERE a=? AND b=?; [a:5, b:6]"), <<>>),
               H(T1, Slow("45", "[2 bound values] INSERT INTO k1.t (a, b) VALUES (?, ?); [a:5, b:6]"), <<>>) }

\* The dump of the keyspace-guess runs: t has one owner, u has two, z has none
GuessSchema ==
    <<Block("k1", "t", "composite", "a"), Block("k1", "u", "inline", "a"),
      Block("k2", "u", "flat", "a")>>

\* No --tags file, an empty mapping, and a mapping of two tags
GuessTags == {NoneDict, <<>>, <<<<"w", "k2">>, <<"x", "k1">>>>}

\* A SELECT of a table named without its keyspace
BareSelect(table) == Slow("45", "SELECT * FROM " \o table \o " LIMIT 10;")

\* Records naming t, u or z, with no tags key, no tag, an unmapped tag, and the two
\* mapped tags in either order
GuessHits ==
    {Hit(T1, BareSelect(table), NONE, FALSE, <<>>) : table \in {"t", "u", "z"}}
        \cup {H(T1, BareSelect(table), tags) :
                 table \in {"t", "u", "z"},
                 tags \in {<<>>, <<"y">>, <<"y", "x", "w">>, <<"w", "x">>}}

\* The dump of the fold runs
FoldSchema == <<Block("k1", "u", "inline", "a")>>

\* The records of the fold runs: two SELECTs whose query text and key differ but
\* give the same text when joined with '.', a SELECT with the query text of the
\* first and the key of the second in each of the two minutes, a SELECT with a
\* keyspace and a table but no key, and a DELETE, which has none of the three
FoldHitList ==
    << H(T1, Slow("40", "[1 bound values] SELECT * FROM k1.u WHERE a=?; [a:x;.y]"), <<>>),
       H(T1, Slow("2", "[1 bound values] SELECT * FROM k1.u WHERE a=?;.x; [a:y]"), <<>>),
       H(T1, Slow("10", "[1 bound values] SELECT * FROM k1.u WHERE a=?; [a:y]"), <<>>),
       H(T2, Slow("40", "[1 bound values] SELECT * FROM k1.u WHERE a=?; [a:y]"), <<>>),
       H(T1, Slow("5", "SELECT * FROM k1.u LIMIT 10;"), <<>>),
       H(T2, Slow("300", "DELETE FROM k1.u WHERE a=1;"), <<>>) >>

FoldHits == {FoldHitList[k] : k \in 1 .. Len(FoldHitList)}

OrderBys == {"duration", "avg_duration", "count"}

\* The configurations of the fold runs: every entry reported, and the reports cut
\* to one row
FoldConfigs == {Config(n, n, o, 1) : n \in {1, 100}, o \in OrderBys}

\* The configurations of the aggregation runs
AnalyzeConfigs ==
    {Config(n, r, o, m) : n \in 1 .. MaxTopN, r \in 1 .. MaxRowsPerMinute, o \in OrderBys,
                          m \in 1 .. MaxMinCount}

\* The configurations of the pipeline runs: the defaults of the command line, and
\* the same with every entry reported
MainConfigs == {Config(100, 5, "duration", 5), Config(100, 5, "duration", 1)}

----------------------------------------------------------------------------
(* run *)

Args(blocks, queries, tags, hits) ==
    [blocks |-> blocks, schema |-> RenderSchema(blocks), queries |-> queries,
     tags |-> tags, hits |-> hits]

\* config after the three loads; when SchemaProcessor.process raises, config.schema
\* is never assigned (SchemaFailed marks that the run ended there)
SchemaFailed == <<<<NONE, <<>>>>, <<NONE, <<>>>>>>

Loaded(cfg, a, sp) ==
    IF sp.raised THEN [cfg EXCEPT !.queries = a.queries, !.schema = SchemaFailed]
    ELSE [cfg EXCEPT !.queries = a.queries, !.schema = sp.ret, !.tags = a.tags]

\* run(), from its start to the end of the tag mapping: the query patterns, the
\* schema (SchemaProcessor.process may raise, which ends the run) and the tags
LoadInputs ==
    /\ pc = "start"
    /\ config' = Loaded(config, args, SchemaProcess(args.schema))
    /\ pc' = IF config'.schema = SchemaFailed THEN "aborted" ELSE "loaded"
    /\ UNCHANGED <<args, idx, processed, results, CF_KEYSPACES, folded, analysis, written,
                   parsers>>

Last(seq) == seq[Len(seq)]

\* process_file: one iteration of its loop
ProcessFile ==
    /\ pc = "loaded"
    /\ idx < Len(args.hits)
    /\ results' = Append(results, ProcessHit(args.hits[idx + 1], config, CF_KEYSPACES))
    /\ processed' = IF Last(results').status = "appended"
                    THEN Append(processed, Last(results').data) ELSE processed
    /\ CF_KEYSPACES' = Last(results').cache
    /\ idx' = idx + 1
    /\ UNCHANGED <<args, config, pc, folded, analysis, written, parsers>>

\* analyze(processed, config), once every file is processed
Analyze ==
    /\ pc = "loaded"
    /\ idx = Len(args.hits)
    /\ folded' = Fold(EmptyRollups, processed)
    /\ analysis' = analyze(processed, config)
    /\ pc' = "analyzed"
    /\ UNCHANGED <<args, config, idx, processed, results, CF_KEYSPACES, written, parsers>>

\* Reporter.report(analysis)
Report ==
    /\ pc = "analyzed"
    /\ written' = ReportRows(analysis)
    /\ pc' = "reported"
    /\ UNCHANGED <<args, config, idx, processed, results, CF_KEYSPACES, folded, analysis,
                   parsers>>

Start(argSet, cfgSet) ==
    /\ args \in argSet
    /\ config \in cfgSet
    /\ pc = "start"
    /\ idx = 0
    /\ processed = <<>>
    /\ results = <<>>
    /\ CF_KEYSPACES = <<>>
    /\ folded = EmptyRollups
    /\ analysis = EmptyRollups
    /\ written = NoRows
    /\ parsers = <<>>

\* The whole pipeline over the hand-written dumps and hits
Init ==
    Start({Args(b, q, t, h) : b \in MainSchemas, q \in MainQueries, t \in MainTags,
                              h \in SeqsUpTo(MainHits, MaxHits)},
          MainConfigs)

Next == LoadInputs \/ ProcessFile \/ Analyze \/ Report

Spec == Init /\ [][Next]_vars

\* The pipeline over every generated dump, with one hit to process
InitSchema ==
    Start({Args(b, NoneList, NoneDict, h) : b \in GeneratedSchemas,
                                          h \in SeqsUpTo(AnalyzeHits, 1)},
          {Config(100, 5, "duration", 1)})

SpecSchema == InitSchema /\ [][Next]_vars

\* The pipeline over a data file of kept and failing records
InitFile ==
    Start({Args(AnalyzeSchema, NoneList, NoneDict, h) : h \in SeqsUpTo(FileHits, MaxFileHits)},
          {Config(100, 5, "duration", 1)})

SpecFile == InitFile /\ [][Next]_vars

\* The pipeline over records that name their table without a keyspace
InitGuess ==
    Start({Args(GuessSchema, NoneList, t, h) : t \in GuessTags,
                                             h \in SeqsUpTo(GuessHits, MaxGuessHits)},
          {Config(100, 5, "duration", 1)})

SpecGuess == InitGuess /\ [][Next]_vars

\* The pipeline over records logged without bound values, with query patterns
InitPattern ==
    Start({Args(AnalyzeSchema, q, NoneDict, h) : q \in PatternQueries,
                                               h \in SeqsUpTo(PatternHits, MaxPatternHits)},
          {Config(100, 5, "duration", 1)})

SpecPattern == InitPattern /\ [][Next]_vars

Stepped(st, r) ==
    [processed |-> IF r.status = "appended" THEN Append(st.processed, r.data)
                   ELSE st.processed,
     results   |-> Append(st.results, r),
     cache     |-> r.cache]

RECURSIVE ProcessAll(_, _, _)
\* process_file over hits, from the state st = [processed, results, cache]
ProcessAll(st, hits, cfg) ==
    IF hits = <<>> THEN st
    ELSE ProcessAll(Stepped(st, ProcessHit(Head(hits), cfg, st.cache)), Tail(hits), cfg)

\* The events of the hits that were appended
Appended(rs) ==
    LET kept == SelectSeq(rs, LAMBDA r : r.status = "appended")
    IN  [i \in 1 .. Len(kept) |-> kept[i].data]

\* config as the aggregation runs load it, before the command line's ranking options
AnalyzeLoaded ==
    [Config(100, 5, "duration", 5) EXCEPT
        !.schema = SchemaProcess(RenderSchema(AnalyzeSchema)).ret]

\* run() as it reaches analyze: the inputs loaded and every hit processed
InitAnalyze ==
    /\ args \in {Args(AnalyzeSchema, NoneList, NoneDict, h) :
                    h \in SeqsUpTo(AnalyzeHits, MaxEvents)}
    /\ pc = "loaded"
    /\ idx = Len(args.hits)
    /\ results = ProcessAll([processed |-> <<>>, results |-> <<>>, cache |-> <<>>],
                            args.hits, AnalyzeLoaded).results
    /\ processed = Appended(results)
    /\ CF_KEYSPACES = IF results = <<>> THEN <<>> ELSE Last(results).cache
    /\ config \in {[AnalyzeLoaded EXCEPT !.top_n = c.top_n, !.order_by = c.order_by,
                                         !.rows_per_minute = c.rows_per_minute,
                                         !.min_count = c.min_count] : c \in AnalyzeConfigs}
    /\ folded = EmptyRollups
    /\ analysis = EmptyRollups
    /\ written = NoRows
    /\ parsers = <<>>

NextAnalyze == Analyze \/ Report

SpecAnalyze == InitAnalyze /\ [][NextAnalyze]_vars

\* config of the fold runs after the loads
FoldLoaded ==
    [Config(100, 5, "duration", 1) EXCEPT
        !.schema = SchemaProcess(RenderSchema(FoldSchema)).ret]

\* run() as it reaches analyze, over the records of the fold runs
InitFold ==
    /\ args \in {Args(FoldSchema, NoneList, NoneDict, h) :
                    h \in SeqsUpTo(FoldHits, MaxFoldEvents)}
    /\ pc = "loaded"
    /\ idx = Len(args.hits)
    /\ results = ProcessAll([processed |-> <<>>, results |-> <<>>, cache |-> <<>>],
                            args.hits, FoldLoaded).results
    /\ processed = Appended(results)
    /\ CF_KEYSPACES = IF results = <<>> THEN <<>> ELSE Last(results).cache
    /\ config \in {[FoldLoaded EXCEPT !.top_n = c.top_n, !.order_by = c.order_by,
                                      !.rows_per_minute = c.rows_per_minute] :
                       c \in FoldConfigs}
    /\ folded = EmptyRollups
    /\ analysis = EmptyRollups
    /\ written = NoRows
    /\ parsers = <<>>

SpecFold == InitFold /\ [][NextAnalyze]_vars

-----------------------------------------------------------------------------
(* _guess_keyspace called by parsers that run side by side. Each parser is at *)
(* one statement of _guess_keyspace or _build_keyspace_guesses; the class    *)
(* attribute CF_KEYSPACES is the one dict they all read and write.           *)

RECURSIVE SchemaPairs(_)
\* The (keyspace, cf) pairs in the order the two loops of _build_keyspace_guesses
\* visit them
SchemaPairs(schema) ==
    IF schema = <<>> THEN <<>>
    ELSE [i \in 1 .. Len(Head(schema)[2]) |-> <<Head(schema)[1], Head(schema)[2][i][1]>>]
         \o SchemaPairs(Tail(schema))

\* A parser that is not inside _guess_keyspace
Idle ==
    [pc |-> "idle", column_family |-> NONE, at |-> 0, absent |-> FALSE, calls |-> 0,
     entered |-> 0, finished |-> 0, keyspace |-> NONE, looked |-> FALSE, seen |-> <<>>]

\* The tables the parsers resolve
ParserTables == {"t", "u"}

\* config of the parser runs after the loads: the dump of the keyspace-guess runs
\* and no --tags file
ParsersLoaded ==
    [Config(100, 5, "duration", 1) EXCEPT
        !.schema = SchemaProcess(RenderSchema(GuessSchema)).ret]

\* What run() holds stays as it is while the parsers resolve
RunUnchanged ==
    UNCHANGED <<args, config, pc, idx, processed, results, folded, analysis, written>>

\* parser k enters _guess_keyspace(column_family, [], config)
Call(k) ==
    /\ parsers[k].pc = "idle"
    /\ parsers[k].calls < MaxCalls
    /\ \E cf \in ParserTables :
           parsers' = [parsers EXCEPT ![k].pc = "check", ![k].column_family = cf,
                                      ![k].calls = @ + 1]
    /\ UNCHANGED CF_KEYSPACES
    /\ RunUnchanged

\* "if not cls.CF_KEYSPACES:", and the start of the two loops when it is empty
Check(k) ==
    /\ parsers[k].pc = "check"
    /\ parsers' =
           IF CF_KEYSPACES = <<>> /\ SchemaPairs(config.schema) # <<>>
           THEN [parsers EXCEPT ![k].pc = "test", ![k].at = 1, ![k].entered = @ + 1]
           ELSE IF CF_KEYSPACES = <<>>
           THEN [parsers EXCEPT ![k].pc = "lookup", ![k].entered = @ + 1,
                                ![k].finished = @ + 1]
           ELSE [parsers EXCEPT ![k].pc = "lookup"]
    /\ UNCHANGED CF_KEYSPACES
    /\ RunUnchanged

\* "if cf not in cls.CF_KEYSPACES:"
Test(k) ==
    /\ parsers[k].pc = "test"
    /\ parsers' =
           [parsers EXCEPT
               ![k].pc = "store",
               ![k].absent = ~DictHas(CF_KEYSPACES,
                                      SchemaPairs(config.schema)[parsers[k].at][2])]
    /\ UNCHANGED CF_KEYSPACES
    /\ RunUnchanged

\* "cls.CF_KEYSPACES[cf] = keyspace" or "cls.CF_KEYSPACES[cf] = 'unknown'", and the
\* next turn of the loops
Store(k) ==
    LET pairs == SchemaPairs(config.schema)
        pair  == pairs[parsers[k].at]
    IN  /\ parsers[k].pc = "store"
        /\ CF_KEYSPACES' = DictSet(CF_KEYSPACES, pair[2],
                                   IF parsers[k].absent THEN pair[1] ELSE "unknown")
        /\ parsers' =
               IF parsers[k].at < Len(pairs)
               THEN [parsers EXCEPT ![k].pc = "test", ![k].at = @ + 1]
               ELSE [parsers EXCEPT ![k].pc = "lookup", ![k].finished = @ + 1]
        /\ RunUnchanged

\* The rest of _guess_keyspace: the tag test and the return
Lookup(k) ==
    /\ parsers[k].pc = "lookup"
    /\ parsers' =
           [parsers EXCEPT
               ![k].pc = "idle",
               ![k].looked = TRUE,
               ![k].seen = CF_KEYSPACES,
               ![k].keyspace = GuessFrom(parsers[k].column_family, <<>>, config,
                                         CF_KEYSPACES).keyspace]
    /\ UNCHANGED CF_KEYSPACES
    /\ RunUnchanged

InitParsers ==
    /\ args = Args(GuessSchema, NoneList, NoneDict, <<>>)
    /\ config = ParsersLoaded
    /\ pc = "loaded"
    /\ idx = 0
    /\ processed = <<>>
    /\ results = <<>>
    /\ CF_KEYSPACES = <<>>
    /\ folded = EmptyRollups
    /\ analysis = EmptyRollups
    /\ written = NoRows
    /\ parsers = [k \in 1 .. MaxParsers |-> Idle]

\* One statement of one parser
NextParsers ==
    \E k \in 1 .. MaxParsers : Call(k) \/ Check(k) \/ Test(k) \/ Store(k) \/ Lookup(k)

SpecParsers == InitParsers /\ [][NextParsers]_vars

----------------------------------------------------------------------------
(* Properties of the pipeline: what process_file made of each hit *)

Range(seq) == {seq[k] : k \in 1 .. Len(seq)}

KeySet(dict) == {dict[k][1] : k \in 1 .. Len(dict)}

\* The hits process_file has been through; hit i gave results[i]
Done == 1 .. Len(results)

IsAppended(i) == results[i].status = "appended"

\* The message of a hit, as process_file reads it
MessageOf(hit) == IF hit.message # NONE THEN hit.message ELSE hit.at_message

\* The catalog entry of keyspace.table
Meta(schema, keyspace, table) == DictGet(DictGet(schema, keyspace), table)

\* The two message shapes of a SELECT by one bound field: the bracketed count
\* straight after " ms: " (the shape get_log reads), and the query text first
CountFirst(D, ks, t, f, v) ==
    Slow(D, "[1 bound values] SELECT * FROM " \o ks \o "." \o t \o " WHERE " \o f
            \o "=?; [" \o f \o ":'" \o v \o "']")

QueryFirst(D, ks, t, f, v) ==
    Slow(D, "SELECT * FROM " \o ks \o "." \o t \o " WHERE " \o f
            \o "=?; [1 bound values] [" \o f \o ":'" \o v \o "']")

C1Durations == {"45", "500"}

C1Values == {"u1", "x"}

\* Every hit whose message is shape(D, ks, t, f, v), for a table ks.t the catalog
\* records with the partition key [f], became the SELECT event of duration D on
\* ks.t with primary_key v
ParsesEndToEnd(shape(_, _, _, _, _)) ==
    \A i \in Done : \A D \in C1Durations, v \in C1Values :
        \A ks \in KeySet(config.schema) : \A t \in KeySet(DictGet(config.schema, ks)) :
            (/\ Meta(config.schema, ks, t).has_keys
             /\ Len(Meta(config.schema, ks, t).primary_key) = 1
             /\ MessageOf(args.hits[i])
                    = shape(D, ks, t, Meta(config.schema, ks, t).primary_key[1], v))
            => /\ IsAppended(i)
               /\ results[i].data.type = "SELECT"
               /\ results[i].data.duration = IntOf(D)
               /\ results[i].data.keyspace = ks
               /\ results[i].data.column_family = t
               /\ results[i].data.primary_key = v

\* C1, as the code has it: a message "Query too slow, took D ms: [1 bound values]
\* SELECT * FROM ks.t WHERE f=?; [f:'v']" (the bracketed count first, then the
\* query text, then the bound-value section), with a schema in which ks.t has the
\* partition key [f], gives an event with type SELECT, duration D, keyspace ks,
\* table t and primary_key v
C1_EndToEndParse == ParsesEndToEnd(CountFirst)

\* C1, as stated: the same for the message with the query text first, then the
\* bracketed count, then the bound-value section
C1_QueryTextFirst == ParsesEndToEnd(QueryFirst)

\* The instance D=45, ks1.users, user_id, 'u1' has been processed
C1_Witness ==
    \E i \in Done :
        /\ MessageOf(args.hits[i]) = CountFirst("45", "ks1", "users", "user_id", "u1")
        /\ SchemaHasKeys(config.schema, "ks1", "users")
        /\ Meta(config.schema, "ks1", "users").primary_key = <<"user_id">>
        /\ IsAppended(i)
        /\ results[i].data.primary_key = "u1"
        /\ results[i].data.duration = 45

\* C2: a SELECT or INSERT event has a primary_key (not None, not empty) only if
\* every partition-key field of its keyspace.table has a value among its bound
\* values; with a partition-key field missing the event has no primary_key
C2_NoPartialKeys ==
    \A i \in Done :
        (/\ IsAppended(i)
         /\ results[i].data.type \in {"SELECT", "INSERT"}
         /\ Truthy(results[i].data.primary_key))
        => /\ SchemaHasKeys(config.schema, results[i].data.keyspace,
                            results[i].data.column_family)
           /\ \A f \in Range(Meta(config.schema, results[i].data.keyspace,
                                  results[i].data.column_family).primary_key) :
                  DictHas(results[i].data.bound_values, f)

\* The blocks of the dump that declare keyspace.table and its key
Declaring(keyspace, table) ==
    {b \in Range(args.blocks) :
        b.form \notin {"stray", "none"} /\ b.keyspace = keyspace /\ b.table = table}

\* The values bound to fields, in the order of fields
BoundTo(bound_values, fields) ==
    [k \in 1 .. Len(fields) |-> DictGet(bound_values, fields[k])]

\* C3: when keyspace and table resolve and every partition-key field the schema
\* declares is bound, primary_key is the bound values of those fields joined with
\* '-' in declared order, with no clustering-key value: ((a, b), c) with a=1, b=2,
\* c=3 gives "1-2", and [user_id] with 'u1' gives "u1"
C3_PartitionKeyJoined ==
    \A i \in Done :
        \A b \in Declaring(results[i].data.keyspace, results[i].data.column_family) :
            (/\ IsAppended(i)
             /\ results[i].data.type \in {"SELECT", "INSERT"}
             /\ \A f \in Range(DeclaredPartition(b)) : DictHas(results[i].data.bound_values, f))
            => results[i].data.primary_key
                   = Join(BoundTo(results[i].data.bound_values, DeclaredPartition(b)), "-")

\* C4: every table of a catalog SchemaProcessor.process returned has a partition-key
\* list, the list is not empty, and no field is in both the partition-key and the
\* clustering-key list
C4_CatalogInvariant ==
    pc \notin {"start", "aborted"}
    => \A ks \in KeySet(config.schema) : \A t \in KeySet(DictGet(config.schema, ks)) :
           /\ Meta(config.schema, ks, t).has_keys
           /\ Meta(config.schema, ks, t).primary_key # <<>>
           /\ Range(Meta(config.schema, ks, t).primary_key)
                  \cap Range(Meta(config.schema, ks, t).clustering_key) = {}

\* Block j of the dump is a key line read with no table-declaration context: the
\* dump starts with it, or the block before it ended with its own key line
StrayAt(j) ==
    /\ args.blocks[j].form = "stray"
    /\ (j = 1 \/ args.blocks[j - 1].form # "none")

\* C5: when the dump holds a key line with no table declaration before it,
\* SchemaProcessor.process raises and returns no catalog, and run ends there: no
\* record is processed, nothing is analyzed and no report is written
C5_StrayKeyLineAborts ==
    (\E j \in 1 .. Len(args.blocks) : StrayAt(j))
    => /\ SchemaProcess(args.schema).raised
       /\ pc \in {"start", "aborted"}
       /\ idx = 0 /\ results = <<>> /\ processed = <<>> /\ CF_KEYSPACES = <<>>
       /\ analysis = EmptyRollups
       /\ written = NoRows
       /\ pc = "aborted" => config.schema = SchemaFailed

\* run has ended at the schema of a dump whose second block is a key line without
\* context, with a hit waiting in the data file
C5_Witness ==
    /\ pc = "aborted"
    /\ Len(args.blocks) = 2 /\ StrayAt(2)
    /\ args.hits # <<>>
    /\ results = <<>>
    /\ written = NoRows

\* The statement of the hit is a DELETE, an UPDATE or a BATCH
IsMutation(hit) ==
    \E kw \in {"DELETE ", "UPDATE ", "BEGIN BATCH "} :
        \/ Contains(MessageOf(hit), " ms: " \o kw)
        \/ Contains(MessageOf(hit), " bound values] " \o kw)

\* C6: the event of a DELETE, an UPDATE or a BATCH record has no primary_key, no
\* keyspace and no table, whatever bound values, schema and query patterns there
\* are, and adds nothing to the by-query-pk and by-full-pk rollups
C6_MutationsCarryNoKey ==
    \A i \in Done :
        (IsMutation(args.hits[i]) \/ results[i].data.type \in {"DELETE", "UPDATE", "BATCH"})
        => /\ results[i].data.primary_key = NONE
           /\ results[i].data.keyspace = NONE
           /\ results[i].data.column_family = NONE
           /\ IsAppended(i) => /\ results[i].data.type \in {"DELETE", "UPDATE", "BATCH"}
                               /\ FoldDatum(EmptyRollups, results[i].data).query_pk = <<>>
                               /\ FoldDatum(EmptyRollups, results[i].data).primary_key = <<>>
                               /\ pc \in {"analyzed", "reported"}
                                  => folded.query_pk = Fold(EmptyRollups,
                                         SelectSeq(processed, LAMBDA e :
                                             e.type \in {"SELECT", "INSERT"})).query_pk

\* A DELETE whose log line binds the whole partition key of a table of the catalog
\* has been processed and reported
C6_Witness ==
    /\ pc = "reported"
    /\ \E i \in Done :
        /\ IsAppended(i)
        /\ results[i].data.type = "DELETE"
        /\ Contains(MessageOf(args.hits[i]), "[a:1, b:2]")
        /\ SchemaHasKeys(config.schema, "k1", "t")
        /\ Meta(config.schema, "k1", "t").primary_key = <<"a", "b">>
        /\ folded.query # <<>>
        /\ folded.query_pk = <<>>

\* The keyspaces whose blocks declare table
Owners(table) ==
    {b.keyspace : b \in {x \in Range(args.blocks) : x.form # "stray" /\ x.table = table}}

\* The hit's statement names table without a keyspace
NamesBare(hit, table) == Contains(MessageOf(hit), " FROM " \o table \o " ")

\* No tag of the hit is in the tag mapping, or there is no mapping
NoTagMatches(hit) ==
    \/ config.tags = NoneDict
    \/ ~hit.has_tags
    \/ \A k \in 1 .. Len(hit.tags) : ~DictHas(config.tags, hit.tags[k])

\* C7: a bare table name the schema declares under two or more keyspaces, in a
\* record with no tag in the tag mapping, resolves to 'unknown' and to no real
\* keyspace, and the event adds to no entry of the by-full-pk rollup
C7_AmbiguousTableIsUnknown ==
    \A i \in Done : \A t \in {b.table : b \in Range(args.blocks)} :
        (/\ NamesBare(args.hits[i], t)
         /\ Cardinality(Owners(t)) >= 2
         /\ NoTagMatches(args.hits[i]))
        => /\ _get_keyspace_cf(t, args.hits[i].tags, config, <<>>).keyspace = "unknown"
           /\ results[i].status \in {"appended", "exception"}
           /\ IsAppended(i) => /\ results[i].data.keyspace = "unknown"
                               /\ results[i].data.keyspace \notin Owners(t)
                               /\ results[i].data.column_family = t
                               /\ FoldDatum(EmptyRollups, results[i].data).primary_key = <<>>
                               /\ pc \in {"analyzed", "reported"}
                                  => \A kv \in Range(folded.primary_key) :
                                         kv[2].column_family # t \/ kv[2].keyspace \in Owners(t)

\* A SELECT on the bare table u, which k1 and k2 both declare, with a bound
\* partition-key value and a tag that the mapping does not hold, has been folded
C7_Witness ==
    /\ pc = "analyzed"
    /\ \E i \in Done :
        /\ NamesBare(args.hits[i], "u")
        /\ Owners("u") = {"k1", "k2"}
        /\ config.tags # NoneDict
        /\ NoTagMatches(args.hits[i])
        /\ IsAppended(i)
        /\ DictHas(results[i].data.bound_values, "a")
        /\ results[i].data.keyspace = "unknown"
        /\ folded.query # <<>>
        /\ folded.primary_key = <<>>

----------------------------------------------------------------------------
(* Properties of analyze: folded is the rollups after the loop over the events,
   analysis what analyze returned, written the rows of the five reports *)

Analyzed == pc \in {"analyzed", "reported"}

\* The entries the min-count filter keeps, with their averages
Survivors == Filtered(folded, config)

\* The reports that are ranked and cut to top_n
RankedReports == {"query", "query_pk", "primary_key"}

\* The rows of the by-minute-top report that belong to minute
RowsOf(minute) == SelectSeq(analysis.volume_top, LAMBDA r : r.minute = minute)

\* The entries nested under minute in a volume_top rollup
Nested(rollup, minute) == DictGet(rollup, minute)

Minutes == KeySet(folded.volume_top)

\* Every row has at least min_count occurrences
AllCounted(rows, min_count) == \A r \in Range(rows) : r.count >= min_count

\* No row of rows was made from an entry of rollup that has fewer than min_count
\* occurrences; same(r, e): row r and entry e have the same grouping fields
NoneBelow(rows, rollup, min_count, same(_, _)) ==
    \A kv \in Range(rollup) :
        kv[2].count < min_count => \A r \in Range(rows) : ~same(r, kv[2])

\* C8: after analyze no row of the by-query, by-query-pk, by-full-pk and by-minute
\* reports, and no row of any minute of by-minute-top, has count < min_count; an
\* entry with min_count - 1 occurrences is in no report
C8_MinCountFilter ==
    Analyzed
    => /\ \A name \in RankedReports \cup {"volume", "volume_top"} :
              AllCounted(analysis[name], config.min_count)
       /\ NoneBelow(analysis.query, folded.query, config.min_count,
                    LAMBDA r, e : r.query = e.query)
       /\ NoneBelow(analysis.query_pk, folded.query_pk, config.min_count,
                    LAMBDA r, e : r.query = e.query /\ r.primary_key = e.primary_key)
       /\ NoneBelow(analysis.primary_key, folded.primary_key, config.min_count,
                    LAMBDA r, e : /\ r.keyspace = e.keyspace
                                  /\ r.column_family = e.column_family
                                  /\ r.primary_key = e.primary_key)
       /\ NoneBelow(analysis.volume, folded.volume, config.min_count,
                    LAMBDA r, e : r.minute = e.minute)
       /\ \A m \in Minutes :
              NoneBelow(RowsOf(m), Nested(folded.volume_top, m), config.min_count,
                        LAMBDA r, e : r.query = e.query /\ r.primary_key = e.primary_key)
       /\ pc = "reported"
          => /\ \A row \in Range(written.slow_queries) \cup Range(written.slow_primary_keys)
                           \cup Range(written.primary_keys) : row[1] >= config.min_count
             /\ \A row \in Range(written.volume) \cup Range(written.volume_top_n) :
                    row[2] >= config.min_count

\* With min_count 2, a query seen once is left out of a by-query report that has a
\* row for a query seen twice, and the reports are written
C8_Witness ==
    /\ pc = "reported"
    /\ config.min_count = 2
    /\ \E kv \in Range(folded.query) : kv[2].count = config.min_count - 1
    /\ Len(folded.query) = 2
    /\ Len(analysis.query) = 1
    /\ Len(written.slow_queries) = 1
    /\ written.volume # <<>>
    /\ written.volume_top_n # <<>>

\* The entries of a rollup with at least min_count occurrences are the survivors
KeptAll(rollup, kept, min_count) ==
    /\ KeySet(kept) \subseteq KeySet(rollup)
    /\ \A kv \in Range(rollup) : kv[2].count >= min_count => DictHas(kept, kv[1])

\* rows are survivors, all of them when the limit allows, else as many as the limit
CutTo(rows, kept, limit) ==
    /\ Range(rows) \subseteq Range(DictValues(kept))
    /\ Len(rows) = Min({limit, Len(kept)})
    /\ Cardinality(Range(rows)) = Len(rows)

\* C9, as the code has it: every entry with count >= min_count (count = min_count
\* included) survives the filter; every survivor is a row of by-minute; a ranked
\* report holds min(top_n, survivors) of its survivors, and each minute of
\* by-minute-top min(rows_per_minute, survivors of the minute), so a survivor is
\* left out only by the rank cut
C9_SurvivorsUpToTheCut ==
    Analyzed
    => /\ \A name \in RankedReports \cup {"volume"} :
              KeptAll(folded[name], Survivors[name], config.min_count)
       /\ \A m \in Minutes :
              KeptAll(Nested(folded.volume_top, m), Nested(Survivors.volume_top, m),
                      config.min_count)
       /\ analysis.volume = DictValues(Survivors.volume)
       /\ \A name \in RankedReports : CutTo(analysis[name], Survivors[name], config.top_n)
       /\ \A m \in Minutes :
              CutTo(RowsOf(m), Nested(Survivors.volume_top, m), config.rows_per_minute)

\* An entry of rollup with at least min_count occurrences has its row in rows
AllPresent(rows, rollup, min_count, same(_, _)) ==
    \A kv \in Range(rollup) :
        kv[2].count >= min_count => \E r \in Range(rows) : same(r, kv[2])

\* C9, as stated: for every rollup, every entry with count >= min_count after the
\* fold is a row of the report analyze returns
C9_EveryEntryPresent ==
    Analyzed
    => /\ AllPresent(analysis.query, folded.query, config.min_count,
                     LAMBDA r, e : r.query = e.query)
       /\ AllPresent(analysis.query_pk, folded.query_pk, config.min_count,
                     LAMBDA r, e : r.query = e.query /\ r.primary_key = e.primary_key)
       /\ AllPresent(analysis.primary_key, folded.primary_key, config.min_count,
                     LAMBDA r, e : /\ r.keyspace = e.keyspace
                                   /\ r.column_family = e.column_family
                                   /\ r.primary_key = e.primary_key)
       /\ AllPresent(analysis.volume, folded.volume, config.min_count,
                     LAMBDA r, e : r.minute = e.minute)
       /\ \A m \in Minutes :
              AllPresent(RowsOf(m), Nested(folded.volume_top, m), config.min_count,
                         LAMBDA r, e : r.query = e.query /\ r.primary_key = e.primary_key)

\* With min_count 2 and room under the limits, the entries seen exactly twice are
\* rows of their reports, next to an entry seen once that is not
C9_Witness ==
    /\ Analyzed
    /\ config.min_count = 2 /\ config.top_n >= 1 /\ config.rows_per_minute >= 1
    /\ \E kv \in Range(folded.query) :
           kv[2].count = 2 /\ \E r \in Range(analysis.query) : r.query = kv[2].query
    /\ \E kv \in Range(folded.query) : kv[2].count = 1
    /\ \E kv \in Range(folded.volume) :
           kv[2].count = 2 /\ \E r \in Range(analysis.volume) : r.minute = kv[2].minute
    /\ \E r \in Range(analysis.volume_top) : r.count = 2

\* rows are in non-increasing order of field
NonIncreasing(rows, field) ==
    \A x, y \in 1 .. Len(rows) : x < y => rows[x][field] >= rows[y][field]

\* rows are at most limit survivors, in rank order, and no survivor left out ranks
\* above a row
RankedAndCut(rows, kept, field, limit) ==
    /\ Len(rows) <= limit
    /\ NonIncreasing(rows, field)
    /\ Range(rows) \subseteq Range(DictValues(kept))
    /\ \A e \in Range(DictValues(kept)) \ Range(rows) :
           \A r \in Range(rows) : e[field] <= r[field]

KeyOf(e) ==
    [query |-> e.query, primary_key |-> OrEmpty(e.primary_key),
     keyspace |-> OrEmpty(e.keyspace), column_family |-> OrEmpty(e.column_family),
     minute |-> MinuteOf(e.timestamp)]

\* Row r of the report name was made from events that group like k
SameGroup(name, r, k) ==
    CASE name = "query"       -> r.query = k.query
      [] name = "query_pk"    -> r.query = k.query /\ r.primary_key = k.primary_key
      [] name = "primary_key" -> /\ r.keyspace = k.keyspace
                                 /\ r.column_family = k.column_family
                                 /\ r.primary_key = k.primary_key
      [] name = "volume"      -> r.minute = k.minute
      [] name = "volume_top"  -> /\ r.minute = k.minute /\ r.query = k.query
                                 /\ r.primary_key = k.primary_key

\* The events of the input that row r of the report name counts
EventsOf(name, r) == {i \in 1 .. Len(processed) : SameGroup(name, r, KeyOf(processed[i]))}

\* Rows with the same order_by value are in the order their keys were first seen
TiesFirstSeen(name, rows) ==
    \A x, y \in 1 .. Len(rows) :
        (x < y /\ rows[x][config.order_by] = rows[y][config.order_by])
        => Min(EventsOf(name, rows[x])) < Min(EventsOf(name, rows[y]))

\* C11: analyze's result is a function of the event sequence and the configuration,
\* and so are the rows written; in a ranked report, and in each minute of
\* by-minute-top, rows with equal order_by value are in first-seen order of their keys
C11_DeterministicWithTieBreak ==
    Analyzed
    => /\ analysis = analyze(processed, config)
       /\ pc = "reported" => written = ReportRows(analyze(processed, config))
       /\ \A name \in RankedReports : TiesFirstSeen(name, analysis[name])
       /\ \A m \in Minutes : TiesFirstSeen("volume_top", RowsOf(m))

\* A by-query report of two rows with the same duration, whose queries were met in
\* the input with a third query between them
C11_Witness ==
    /\ pc = "reported"
    /\ config.order_by = "duration"
    /\ Len(analysis.query) = 2
    /\ analysis.query[1].duration = analysis.query[2].duration
    /\ analysis.query[1].query # analysis.query[2].query
    /\ Min(EventsOf("query", analysis.query[1])) = 1
    /\ Min(EventsOf("query", analysis.query[2])) = 3
    /\ Len(written.slow_queries) = 2

\* The characters of a minute key, in code-point order
MINUTE_CHARS == " -0123456789:"

RECURSIVE Before(_, _)
\* a < b for two minute keys: the order of Python's str comparison
Before(a, b) ==
    IF b = "" THEN FALSE
    ELSE IF a = "" THEN TRUE
    ELSE IF Ch(a, 0) = Ch(b, 0) THEN Before(PyFrom(a, 1), PyFrom(b, 1))
    ELSE Find(MINUTE_CHARS, Ch(a, 0), 0) < Find(MINUTE_CHARS, Ch(b, 0), 0)

\* C12: the rows of the by-minute report are in strictly ascending minute order
C12_ByMinuteAscending ==
    Analyzed
    => \A x, y \in 1 .. Len(analysis.volume) :
           x < y => Before(analysis.volume[x].minute, analysis.volume[y].minute)

\* The rows of one minute are next to each other
Contiguous(rows) ==
    \A x, y, z \in 1 .. Len(rows) :
        (x < y /\ y < z /\ rows[x].minute = rows[z].minute) => rows[y].minute = rows[x].minute

\* C13: in by-minute-top the rows of a minute are contiguous, the minutes ascend,
\* and the rows of a minute are in descending rank order
C13_ByMinuteTopOrder ==
    Analyzed
    => /\ Contiguous(analysis.volume_top)
       /\ \A x, y \in 1 .. Len(analysis.volume_top) :
              x < y => \/ analysis.volume_top[x].minute = analysis.volume_top[y].minute
                       \/ Before(analysis.volume_top[x].minute, analysis.volume_top[y].minute)
       /\ \A m \in Minutes : NonIncreasing(RowsOf(m), config.order_by)

\* Every report, by-minute and by-minute-top included
AllReports == RankedReports \cup {"volume", "volume_top"}

\* The sum of the durations of the events of a set of positions of the input
RECURSIVE DurationSum(_)
DurationSum(positions) ==
    IF positions = {} THEN 0
    ELSE LET i == CHOOSE j \in positions : TRUE
         IN  processed[i].duration + DurationSum(positions \ {i})

\* q is the floor of total / count
IsFloor(q, total, count) == q * count <= total /\ total < (q + 1) * count

\* C14: in every row of every report count is at least 1, duration is the sum of the
\* durations of the events the row counts, and avg_duration is floor(duration / count)
C14_AvgIsFloor ==
    Analyzed
    => \A name \in AllReports : \A r \in Range(analysis[name]) :
           /\ r.count >= 1
           /\ r.count = Cardinality(EventsOf(name, r))
           /\ r.duration = DurationSum(EventsOf(name, r))
           /\ IsFloor(r.avg_duration, r.duration, r.count)

\* A written by-minute row of three events whose total, 100 + 300 + 7, is not a
\* multiple of three
C14_Witness ==
    /\ pc = "reported"
    /\ written.volume = <<<<MinuteOf(T2), 3, 407, 135>>>>

----------------------------------------------------------------------------
(* Properties of process_file over a data file of kept and failing records *)

\* What process_file makes of a hit that is alone in its file
Alone(hit) == ProcessHit(hit, config, <<>>)

\* The hits of the data file read so far that are records to keep
KeptSoFar == SelectSeq(SubSeq(args.hits, 1, idx), LAMBDA h : h \in GoodHits)

\* events are the events of the hits kept, one per hit, in their order
EventsInOrder(events, kept) ==
    /\ Len(events) = Len(kept)
    /\ \A k \in 1 .. Len(kept) :
           /\ events[k] = Alone(kept[k]).data
           /\ events[k].timestamp = kept[k].timestamp
           /\ Contains(MessageOf(kept[k]), events[k].query)

\* C16: a hit that fails (unhandled statement, marker or " ms: " missing, duration
\* not a number, timestamp unparsable, timestamp or message absent) is dropped
\* alone: every hit read has its outcome and the loop is at the next hit, the other
\* hits gave the events they give alone, what process_file has collected is those
\* events, one per hit, in input order, and the reports are made of the whole file
C16_FailuresIsolated ==
    /\ Len(results) = idx /\ pc # "aborted"
    /\ \A i \in Done :
           /\ args.hits[i] \in FailingHits => ~IsAppended(i)
           /\ args.hits[i] \in GoodHits
              => IsAppended(i) /\ results[i].data = Alone(args.hits[i]).data
    /\ pc # "start" => EventsInOrder(processed, KeptSoFar)
    /\ Analyzed => idx = Len(args.hits) /\ analysis = analyze(processed, config)

\* A file of a failing hit followed by a kept one, read to its end and analyzed
C16_Witness ==
    /\ pc = "reported"
    /\ Len(args.hits) = 2
    /\ args.hits[1] \in UnhandledHits
    /\ args.hits[2] \in GoodHits
    /\ results[1].status = "exception"
    /\ Len(processed) = 1
    /\ Len(written.slow_queries) = 1

\* The statement type a query text has when its keyword is read in any letter case
StatementOf(query) ==
    CASE StartsWith(Lower(query), "select")      -> "SELECT"
      [] StartsWith(Lower(query), "begin batch") -> "BATCH"
      [] StartsWith(Lower(query), "insert")      -> "INSERT"
      [] StartsWith(Lower(query), "delete")      -> "DELETE"
      [] StartsWith(Lower(query), "update")      -> "UPDATE"
      [] OTHER                                   -> NONE

\* The hits that are well formed but for the letter case of their keyword
AnyCaseHits == GoodHits \cup MixedCaseHits

\* C15: a record whose query text starts with a statement keyword in any letter
\* case is handled and gives an event of that statement's type
C15_KeywordsInAnyCase ==
    \A i \in Done :
        args.hits[i] \in AnyCaseHits
        => /\ StatementOf(get_log(MessageOf(args.hits[i])).query) # NONE
           /\ IsAppended(i)
           /\ results[i].data.type = StatementOf(get_log(MessageOf(args.hits[i])).query)

----------------------------------------------------------------------------
(* Properties of the resolution of keyspace, table and key *)

\* A hit that is a well-formed SELECT or INSERT record: whatever fails for it is a
\* failure to resolve its keyspace, its table or its key
IsSelectOrInsert(hit) ==
    /\ hit.timestamp # NONE /\ hit.message # NONE
    /\ TimestampOk(hit.timestamp)
    /\ ~get_log(hit.message).raised
    /\ IntOk(get_log(hit.message).duration)
    /\ SelectHandles(get_log(hit.message)) \/ InsertHandles(get_log(hit.message))

\* The event e is counted in by-query and by-minute
Counted(e) ==
    /\ \E r \in Range(analysis.query) : r.query = e.query
    /\ \E r \in Range(analysis.volume) : r.minute = MinuteOf(e.timestamp)

\* C17: a SELECT or INSERT record gives an event whether or not its keyspace, table
\* and key resolve; the event is counted in by-query and by-minute, and by-query-pk
\* and by-full-pk have no row for a missing field
C17_SoftFailuresKeepTheRecord ==
    /\ \A i \in Done :
           IsSelectOrInsert(args.hits[i])
           => /\ IsAppended(i)
              /\ (Analyzed /\ config.min_count = 1) => Counted(results[i].data)
    /\ Analyzed
       => /\ \A r \in Range(analysis.query_pk) : r.primary_key # ""
          /\ \A r \in Range(analysis.primary_key) :
                 r.primary_key # "" /\ r.keyspace # "" /\ r.column_family # ""

\* The index value of a table: its owner, the ambiguous marker, or None
IndexValue(table) ==
    IF Owners(table) = {} THEN NONE
    ELSE IF Cardinality(Owners(table)) = 1 THEN CHOOSE k \in Owners(table) : TRUE
    ELSE "unknown"

\* The tags of a hit, as process_file reads them
TagsOf(hit) == IF hit.has_tags THEN hit.tags ELSE <<>>

\* The positions of the tags of the hit that the tag mapping holds
Matching(hit) ==
    IF config.tags = NoneDict THEN {}
    ELSE {k \in 1 .. Len(TagsOf(hit)) : DictHas(config.tags, TagsOf(hit)[k])}

\* The keyspace a bare table name resolves to, by the documented precedence
Precedence(hit, table) ==
    IF Matching(hit) # {} /\ Cardinality(Owners(table)) # 1
    THEN DictGet(config.tags, TagsOf(hit)[Min(Matching(hit))])
    ELSE IndexValue(table)

\* C20: a bare table name that is absent from the index or ambiguous resolves to the
\* mapped keyspace of the first tag of the record that the mapping holds; with no
\* mapping or no such tag it resolves to the index value (owner, 'unknown' or
\* None); a table with exactly one owner resolves to its owner whatever the tags
C20_KeyspacePrecedence ==
    \A i \in Done : \A t \in {"t", "u", "z"} :
        NamesBare(args.hits[i], t)
        => /\ IsAppended(i)
           /\ results[i].data.column_family = t
           /\ results[i].data.keyspace = Precedence(args.hits[i], t)
           /\ Cardinality(Owners(t)) = 1 => results[i].data.keyspace \in Owners(t)

\* Under the mapping w: k2, x: k1, the ambiguous u of a record tagged y, x, w went
\* to k1, the keyspace of x, and t of a record tagged w, x stayed with its owner k1
C20_Witness ==
    /\ pc = "reported"
    /\ config.tags = <<<<"w", "k2">>, <<"x", "k1">>>>
    /\ Len(args.hits) = 2
    /\ NamesBare(args.hits[1], "u") /\ args.hits[1].tags = <<"y", "x", "w">>
    /\ NamesBare(args.hits[2], "t") /\ args.hits[2].tags = <<"w", "x">>
    /\ Owners("u") = {"k1", "k2"} /\ Owners("t") = {"k1"}
    /\ results[1].data.keyspace = "k1"
    /\ results[2].data.keyspace = "k1"
    /\ DictGet(config.tags, "w") = "k2"

----------------------------------------------------------------------------
(* Properties of the by-full-pk report as the input of find_pk_nodes *)

\* keys are the keys of the rollup entries, entry by entry
SameKeys(keys, entries) ==
    /\ Len(keys) = Len(entries)
    /\ \A i \in 1 .. Len(entries) :
           /\ keys[i].keyspace = entries[i].keyspace
           /\ keys[i].column_family = entries[i].column_family
           /\ keys[i].primary_key = entries[i].primary_key

\* The cells a row of by-full-pk has if its columns are keyspace, table,
\* primary_key, count, duration, avg_duration
KeyFirstCells(e) ==
    <<e.keyspace, e.column_family, e.primary_key, Str(e.count), Str(e.duration),
      Str(e.avg_duration)>>

\* C18: the rows written for by-full-pk are keyspace, table, primary_key, count,
\* duration, avg_duration, and read_csv reads back from them the keyspace, the
\* column family and the primary key of the entries they were written from
C18_ReportFeedsLookup ==
    pc = "reported"
    => /\ \A i \in 1 .. Len(analysis.primary_key) :
              PrimaryKeysCsv(written.primary_keys)[i + 1] = KeyFirstCells(analysis.primary_key[i])
       /\ SameKeys(read_csv(PrimaryKeysCsv(written.primary_keys)), analysis.primary_key)

----------------------------------------------------------------------------
(* Properties of the schema catalog *)

\* Block j is the dump's last declaration of its table, and has a key line
LastKeyed(j) ==
    /\ args.blocks[j].form \in {"composite", "composite_indented", "flat", "inline"}
    /\ \A k \in (j + 1) .. Len(args.blocks) :
           \/ args.blocks[k].form = "stray"
           \/ args.blocks[k].keyspace # args.blocks[j].keyspace
           \/ args.blocks[k].table # args.blocks[j].table

\* C19: a key line, indented or not, is recorded by its form: ((a, b), c) as
\* partition [a, b] and clustering [c], (a, c) as partition [a] and clustering [c],
\* and "a text PRIMARY KEY" as partition [a] with no clustering key
C19_KeyGrammar ==
    pc \notin {"start", "aborted"}
    => \A j \in 1 .. Len(args.blocks) :
           LastKeyed(j)
           => /\ Meta(config.schema, args.blocks[j].keyspace, args.blocks[j].table).primary_key
                    = DeclaredPartition(args.blocks[j])
              /\ Meta(config.schema, args.blocks[j].keyspace, args.blocks[j].table).clustering_key
                    = DeclaredClustering(args.blocks[j])

----------------------------------------------------------------------------
(* Properties of the query patterns *)

\* The log parts of hit i
LogOf(i) == get_log(MessageOf(args.hits[i]))

\* The positions in config.queries of the patterns whose prefix starts the query
MatchingPatterns(query) ==
    IF config.queries = NoneList THEN {}
    ELSE {k \in 1 .. Len(config.queries) : StartsWith(query, config.queries[k].start)}

\* The first configured pattern that matches the query
FirstMatching(query) == config.queries[Min(MatchingPatterns(query))]

\* Every parameter name of the pattern occurs in the query with an '=' after it
NamesAssigned(query, pattern) ==
    \A name \in Range(pattern.parameters) :
        /\ Find(query, name, 0) # -1
        /\ Find(query, "=", Find(query, name, 0) + Len(name)) # -1

\* The least of the positions that are not -1, or -1
FirstOf(positions) == IF positions \ {-1} = {} THEN -1 ELSE Min(positions \ {-1})

RECURSIVE TokenLoop(_, _, _)
\* The extraction with the token ended by whichever of ' ', ',' and ';' comes first
TokenLoop(query, bound_values, names) ==
    IF names = <<>> THEN [query |-> query, bound_values |-> bound_values]
    ELSE LET name  == Head(names)
             start == Find(query, "=", Find(query, name, 0) + Len(name)) + 1
             temp  == LStrip(PyFrom(query, start), " ")
             end   == FirstOf({Find(temp, " ", 0), Find(temp, ",", 0), Find(temp, ";", 0)})
             value == PySlice(temp, 0, end)
         IN  IF end = -1 THEN TokenLoop(query, bound_values, Tail(names))
             ELSE TokenLoop(Replace(query, value, "?"),
                            DictSet(bound_values, Lower(name), Strip(value, "'")),
                            Tail(names))

\* Hit i is a SELECT logged without bound values that a pattern matches
PatternApplies(i) ==
    /\ IsAppended(i)
    /\ results[i].data.type = "SELECT"
    /\ ~Truthy(LogOf(i).bound_values)
    /\ MatchingPatterns(LogOf(i).query) # {}

\* C21: for each parameter name of the pattern, the value is the token after the
\* first '=' that follows the name, ended by whichever of space, comma and
\* semicolon comes first, and skipped only when none of them occurs; the bound
\* values hold lower(name) -> the token without its quotes, and the query text has
\* '?' for every occurrence of the token
C21_PatternTokens ==
    \A i \in Done :
        (PatternApplies(i) /\ NamesAssigned(LogOf(i).query, FirstMatching(LogOf(i).query)))
        => /\ results[i].data.query
                 = TokenLoop(LogOf(i).query, <<>>,
                             FirstMatching(LogOf(i).query).parameters).query
           /\ results[i].data.bound_values
                 = TokenLoop(LogOf(i).query, <<>>,
                             FirstMatching(LogOf(i).query).parameters).bound_values

\* The key of an event, resolved from its own bound values, keyspace and table
KeyFrom(e) ==
    IF e.bound_values # <<>> /\ Truthy(e.keyspace) /\ Truthy(e.column_family)
    THEN _get_primary_key(e.bound_values, e.keyspace, e.column_family, config).value
    ELSE NONE

\* The event e has the query text and the bound values of qb, and its key from them
SuppliedBy(e, qb) ==
    /\ e.query = qb.query
    /\ e.bound_values = qb.bound_values
    /\ e.primary_key = KeyFrom(e)

\* C22: a SELECT or INSERT record logged without a bound-value section takes its
\* bound values and its query text from the first configured pattern whose prefix
\* starts the query, and its primary key from those; a record logged with the
\* section takes them from the section and the patterns are left alone
C22_PatternsForSelectAndInsert ==
    \A i \in Done :
        (IsAppended(i) /\ results[i].data.type \in {"SELECT", "INSERT"})
        => IF Truthy(LogOf(i).bound_values)
           THEN SuppliedBy(results[i].data,
                           [query |-> LogOf(i).query,
                            bound_values |-> _get_bound_values(LogOf(i).bound_values)])
           ELSE MatchingPatterns(LogOf(i).query) # {}
                => SuppliedBy(results[i].data,
                              PatternProcess(LogOf(i).query, FirstMatching(LogOf(i).query)))

(***************************************************************************)
(* Properties of the fold                                                  *)
(***************************************************************************)

\* analyze has run its loop over the events
Folded == pc \in {"analyzed", "reported"}

\* The key under which the flat rollup name takes the event e, NONE when the
\* rollup does not take it
EntryKey(name, e) ==
    LET k == KeyOf(e)
    IN  CASE name = "query"       -> k.query
          [] name = "query_pk"    -> IF k.primary_key # ""
                                     THEN k.query \o "." \o k.primary_key ELSE NONE
          [] name = "primary_key" -> IF k.primary_key # "" /\ k.keyspace # ""
                                        /\ k.column_family # ""
                                     THEN k.keyspace \o "." \o k.column_family \o "."
                                          \o k.primary_key
                                     ELSE NONE
          [] name = "volume"      -> k.minute

\* The key of the event e inside the nested rollup of its minute
NestedKey(e) == KeyOf(e).query \o "." \o KeyOf(e).primary_key

\* The positions of the events that the flat rollup name takes under key
Takers(name, key) == {i \in 1 .. Len(processed) : EntryKey(name, processed[i]) = key}

\* The positions of the events of the minute that its nested rollup takes under key
NestedTakers(minute, key) ==
    {i \in 1 .. Len(processed) :
        KeyOf(processed[i]).minute = minute /\ NestedKey(processed[i]) = key}

\* The entry counts the events of positions, and nothing else
Counts(entry, positions) ==
    /\ positions # {}
    /\ entry.count = Cardinality(positions)
    /\ entry.duration = DurationSum(positions)

FlatRollups == {"query", "query_pk", "primary_key", "volume"}

\* The flat rollup name holds one entry for every key an event gave it, and every
\* entry counts the events that gave its key
FlatFoldRule(name) ==
    /\ \A kv \in Range(folded[name]) : Counts(kv[2], Takers(name, kv[1]))
    /\ \A i \in 1 .. Len(processed) :
            EntryKey(name, processed[i]) # NONE
            => DictHas(folded[name], EntryKey(name, processed[i]))
    /\ Cardinality(Range(DictKeys(folded[name]))) = Len(folded[name])

\* The nested rollup holds one minute for every minute of an event, and under it
\* one entry for every key an event of the minute gave, counting those events
NestedFoldRule ==
    /\ \A mv \in Range(folded.volume_top) :
            /\ \A kv \in Range(mv[2]) : Counts(kv[2], NestedTakers(mv[1], kv[1]))
            /\ Cardinality(Range(DictKeys(mv[2]))) = Len(mv[2])
    /\ \A i \in 1 .. Len(processed) :
            /\ DictHas(folded.volume_top, KeyOf(processed[i]).minute)
            /\ DictHas(DictGet(folded.volume_top, KeyOf(processed[i]).minute),
                       NestedKey(processed[i]))
    /\ Cardinality(Range(DictKeys(folded.volume_top))) = Len(folded.volume_top)

\* C23: after the loop of analyze and before the min-count filter, every entry of
\* the five rollups has as count the number, and as duration the sum of the
\* durations, of the events that gave its key: every event for by-query, by-minute
\* and the nested rollup of its minute, the events with a primary key for
\* by-query-pk, the events with a keyspace, a table and a primary key for
\* by-full-pk; there is no other entry
C23_FoldRule == Folded => (\A name \in FlatRollups : FlatFoldRule(name)) /\ NestedFoldRule

\* Two SELECTs with the same key and a SELECT without a key, all in one minute,
\* have been folded: two by-query entries, one by-query-pk and one by-full-pk
\* entry that count the first two, and two nested entries under the minute
C23_Witness ==
    /\ Folded
    /\ Len(processed) = 3
    /\ processed[3].primary_key = NONE /\ processed[3].keyspace = "k1"
    /\ folded.query_pk
           = << <<"SELECT * FROM k1.u WHERE a=?;.y",
                  [count |-> 2, duration |-> 20, query |-> "SELECT * FROM k1.u WHERE a=?;",
                   primary_key |-> "y", keyspace |-> "k1", column_family |-> "u"]>> >>
    /\ DictGet(folded.primary_key, "k1.u.y").count = 2
    /\ Len(folded.query) = 2
    /\ DictGet(folded.volume, MinuteOf(T1)).duration = 25
    /\ Len(DictGet(folded.volume_top, MinuteOf(T1))) = 2

\* The sum of a field over the entries of a rollup
RECURSIVE Total(_, _)
Total(rollup, field) ==
    IF rollup = <<>> THEN 0 ELSE Head(rollup)[2][field] + Total(Tail(rollup), field)

\* The sum of a field over the entries of every minute of the nested rollup
RECURSIVE NestedTotal(_, _)
NestedTotal(volume_top, field) ==
    IF volume_top = <<>> THEN 0
    ELSE Total(Head(volume_top)[2], field) + NestedTotal(Tail(volume_top), field)

\* What the events amount to in a field of the entries
EventsTotal(field) ==
    IF field = "count" THEN Len(processed) ELSE DurationSum(1 .. Len(processed))

\* The rollups that take every event add up to the events in the field, the entry
\* of every minute adds up to the nested entries of the minute, and the rollups
\* that take only keyed events do not add up to more
Conserved(field) ==
    /\ Total(folded.query, field) = EventsTotal(field)
    /\ Total(folded.volume, field) = EventsTotal(field)
    /\ NestedTotal(folded.volume_top, field) = EventsTotal(field)
    /\ \A mv \in Range(folded.volume) :
            /\ DictHas(folded.volume_top, mv[1])
            /\ mv[2][field] = Total(DictGet(folded.volume_top, mv[1]), field)
    /\ Total(folded.query_pk, field) <= EventsTotal(field)
    /\ Total(folded.primary_key, field) <= EventsTotal(field)

\* C27: after the loop of analyze and before the min-count filter, the counts of the
\* by-query entries, of the by-minute entries and of the nested entries each add up
\* to the number of events, their durations each add up to the sum of the durations
\* of the events, the entry of every minute has the count and the duration its
\* nested entries add up to, and the by-query-pk and by-full-pk entries add up to no
\* more than the events
C27_Conservation == Folded => Conserved("count") /\ Conserved("duration")

\* A SELECT with a key in one minute, the same SELECT and a DELETE without a key in
\* the next: three events of 350 ms in two minutes, of which the keyed rollups
\* hold two events of 50 ms
C27_Witness ==
    /\ Folded
    /\ Len(processed) = 3
    /\ Len(folded.volume) = 2
    /\ Total(folded.volume, "duration") = 350
    /\ NestedTotal(folded.volume_top, "count") = 3
    /\ Len(DictGet(folded.volume_top, MinuteOf(T2))) = 2
    /\ Total(folded.query_pk, "count") = 2
    /\ Total(folded.primary_key, "duration") = 50

\* The events e and f go to the same entry of the flat rollup name
SameEntry(name, e, f) == EntryKey(name, e) # NONE /\ EntryKey(name, e) = EntryKey(name, f)

\* The events e and f go to the same entry of the nested rollup
SameNestedEntry(e, f) == KeyOf(e).minute = KeyOf(f).minute /\ NestedKey(e) = NestedKey(f)

\* The events e and f have the same query text and the same primary key
SameQueryPk(e, f) ==
    KeyOf(e).query = KeyOf(f).query /\ KeyOf(e).primary_key = KeyOf(f).primary_key

\* The events e and f have the same keyspace, table and primary key
SameFullPk(e, f) ==
    /\ KeyOf(e).keyspace = KeyOf(f).keyspace
    /\ KeyOf(e).column_family = KeyOf(f).column_family
    /\ KeyOf(e).primary_key = KeyOf(f).primary_key

\* C28: two events are accumulated into the same by-query-pk entry, or into the
\* same nested entry of a minute, only if they have the same query text and the
\* same primary key, and into the same by-full-pk entry only if they have the same
\* keyspace, table and primary key
C28_KeysInjective ==
    Folded =>
    \A i, j \in 1 .. Len(processed) :
        /\ SameEntry("query_pk", processed[i], processed[j])
           => SameQueryPk(processed[i], processed[j])
        /\ SameNestedEntry(processed[i], processed[j])
           => SameQueryPk(processed[i], processed[j])
        /\ SameEntry("primary_key", processed[i], processed[j])
           => SameFullPk(processed[i], processed[j])

\* The by-full-pk half of the above, alone
FullPkInjective ==
    Folded =>
    \A i, j \in 1 .. Len(processed) :
        SameEntry("primary_key", processed[i], processed[j])
        => SameFullPk(processed[i], processed[j])

\* Two events with different query texts and different keys are counted by one
\* by-query-pk entry, which carries the query text and the key of the first
MergedEntry ==
    /\ Folded
    /\ Len(processed) = 2
    /\ ~SameQueryPk(processed[1], processed[2])
    /\ Len(folded.query) = 2
    /\ Len(folded.query_pk) = 1
    /\ folded.query_pk[1][2].count = 2
    /\ folded.query_pk[1][2].primary_key = processed[1].primary_key

(***************************************************************************)
(* Properties of the order of the events                                   *)
(***************************************************************************)

\* analyze has returned, and its result is not yet reported
Analysed == pc = "analyzed"

\* The events in the order a permutation of their positions gives
Reordered(data, p) == [i \in 1 .. Len(data) |-> data[p[i]]]

\* The grouping fields, count, duration and avg_duration of a row of a report
RowOf(name, r) ==
    LET sums == <<r.count, r.duration, r.avg_duration>>
    IN  CASE name = "query"       -> sums \o <<r.query>>
          [] name = "query_pk"    -> sums \o <<r.query, r.primary_key>>
          [] name = "primary_key" -> sums \o <<r.keyspace, r.column_family, r.primary_key>>
          [] name = "volume"      -> sums \o <<r.minute>>
          [] name = "volume_top"  -> sums \o <<r.minute, r.query, r.primary_key>>

\* The set of rows of a report of an analysis
RowSet(an, name) == {RowOf(name, r) : r \in Range(an[name])}

\* The two analyses have the same set of rows in every report
SameRowSets(an, other) == \A name \in AllReports : RowSet(an, name) = RowSet(other, name)

\* C24: for every other ordering of the events analyze was given, analyze returns
\* under the same configuration the same set of rows in each of the five reports
C24_OrderIndependent ==
    Analysed =>
        \A p \in Permutations(1 .. Len(processed)) :
            SameRowSets(analysis, analyze(Reordered(processed, p), config))

\* The sums of a row of a report and the key text its grouping fields join to
KeyedRowOf(name, r) ==
    LET sums == <<r.count, r.duration, r.avg_duration>>
    IN  CASE name = "query"       -> sums \o <<r.query>>
          [] name = "query_pk"    -> sums \o <<r.query \o "." \o r.primary_key>>
          [] name = "primary_key" -> sums \o <<r.keyspace \o "." \o r.column_family
                                                \o "." \o r.primary_key>>
          [] name = "volume"      -> sums \o <<r.minute>>
          [] name = "volume_top"  -> sums \o <<r.minute, r.query \o "." \o r.primary_key>>

KeyedRowSet(an, name) == {KeyedRowOf(name, r) : r \in Range(an[name])}

\* No two entries of the rollup have the same value in the order_by field
NoTies(rollup) ==
    \A x, y \in 1 .. Len(rollup) :
        x # y => rollup[x][2][config.order_by] # rollup[y][2][config.order_by]

\* The sort and cut keeps the same entries of the rollup whatever their order:
\* all of them, or the first of entries that differ in the order_by field
CutIsOrderFree(rollup, limit) == Len(rollup) <= limit \/ NoTies(rollup)

\* The same, for the report name
ReportIsOrderFree(name) ==
    CASE name \in RankedReports -> CutIsOrderFree(Survivors[name], config.top_n)
      [] name = "volume"          -> TRUE
      [] name = "volume_top"      ->
            \A mv \in Range(Survivors.volume_top) :
                CutIsOrderFree(mv[2], config.rows_per_minute)

\* The reports the order of the events cannot change
OrderFreeReports == {name \in AllReports : ReportIsOrderFree(name)}

\* The other analysis has the rows of the one returned in each of the reports
SameOrderFreeRows(reports, other) ==
    \A name \in reports : KeyedRowSet(analysis, name) = KeyedRowSet(other, name)

\* C24, as the code has it: for every other ordering of the events analyze was
\* given, analyze returns under the same configuration the same set of rows (count,
\* duration, avg_duration and the key text of the grouping fields) in by-minute and
\* in every report that is not cut or whose entries all differ in the order_by
\* field; among entries with equal order_by value the cut keeps the first seen
C24_OrderIndependentUpToTies ==
    Analysed =>
        \A p \in Permutations(1 .. Len(processed)) :
            SameOrderFreeRows(OrderFreeReports, analyze(Reordered(processed, p), config))

\* Three events of two statements, the slower statement seen last, by-query ranked
\* by duration and cut to one row: the row is the statement seen last
C24_Witness ==
    /\ Analysed
    /\ Len(processed) = 3
    /\ config.top_n = 1 /\ config.order_by = "duration"
    /\ Len(Survivors.query) = 2
    /\ NoTies(Survivors.query)
    /\ Len(analysis.query) = 1
    /\ analysis.query[1].query = processed[3].query
    /\ analysis.query[1].query # processed[1].query

(***************************************************************************)
(* Properties of the dispatch                                              *)
(***************************************************************************)

\* get_log has parsed the message of hit i
Parsed(i) == MessageOf(args.hits[i]) # NONE /\ ~LogOf(i).raised

\* The processors whose handles() is true of the log
Handlers(log) == {p \in Range(processors) : Handles(p, log)}

\* The processors list in another order
OrderOf(p) == [k \in 1 .. Len(processors) |-> processors[p[k]]]

\* The processors list with the processor p moved to the front
MovedToFront(p) == <<p>> \o SelectSeq(processors, LAMBDA q : q # p)

RECURSIVE FirstHandler(_, _)
\* The processor at which the loop over the list ps breaks when handles() is true
\* of the processors in handlers, NONE when it runs out
FirstHandler(ps, handlers) ==
    IF ps = <<>> THEN NONE
    ELSE IF Head(ps) \in handlers THEN Head(ps) ELSE FirstHandler(Tail(ps), handlers)

\* The loop breaks at the same processor in every order of the list
SameHandlerInEveryOrder(handlers) ==
    \A p \in Permutations(1 .. Len(processors)) :
        FirstHandler(OrderOf(p), handlers) = FirstHandler(processors, handlers)

\* The keyspace index as hit i found it
CacheBefore(i) == IF i = 1 THEN <<>> ELSE results[i - 1].cache

\* The type of the event the loop over the list ps produces from a log, NONE when
\* it raises
TypeUnder(ps, log, cache) ==
    LET r == Dispatch(ps, log, config, cache)
    IN  IF r.raised THEN NONE ELSE r.data.type

\* The log of hit i as process_message hands it to the processors
TaggedLog(i) == LogOf(i) @@ [tags |-> TagsOf(args.hits[i])]

\* The loop over the processors gives an event of type t whichever processor the
\* list starts with
SameTypeFromEveryStart(log, cache, t) ==
    \A p \in Range(processors) : TypeUnder(MovedToFront(p), log, cache) = t

\* At most one processor handles the log; the loop breaks at the same processor in
\* every order of the list and gives an event of type t whichever processor the
\* list starts with
ExclusiveFor(log, cache, handlers, t) ==
    /\ Cardinality(handlers) <= 1
    /\ SameHandlerInEveryOrder(handlers)
    /\ handlers # {} => SameTypeFromEveryStart(log, cache, t)

\* Hit i is the one process_file has just processed
JustProcessed(i) == pc = "loaded" /\ i = Len(results)

\* C26: when a record has been processed, for its query text at most one of the
\* five processors has handles() true, and the type of the event process_message
\* produces is the same under every order of the processors list
C26_ExtractorsExclusive ==
    \A i \in Done :
        (JustProcessed(i) /\ Parsed(i))
        => /\ ExclusiveFor(TaggedLog(i), CacheBefore(i), Handlers(LogOf(i)),
                           IF IsAppended(i) THEN results[i].data.type ELSE NONE)
           /\ Handlers(LogOf(i)) = {} => ~IsAppended(i)

\* A batch that wraps an INSERT has been processed: only the batch processor
\* handles it, and the event is a BATCH
C26_Witness ==
    /\ idx = 1
    /\ Parsed(1)
    /\ Contains(LogOf(1).query, "INSERT")
    /\ Handlers(LogOf(1)) = {"BATCH"}
    /\ IsAppended(1)
    /\ results[1].data.type = "BATCH"

(***************************************************************************)
(* Properties of the keyspace index under parsers that run side by side    *)
(***************************************************************************)

\* The index one build over the catalog gives
FullIndex == _build_keyspace_guesses(<<>>, config.schema)

\* The keyspaces of the catalog that declare the table
DeclaredBy(cf) == {p[1] : p \in {q \in Range(SchemaPairs(config.schema)) : q[2] = cf}}

RECURSIVE BuildsEntered(_)
\* How many times the parsers 1 .. k have entered the build
BuildsEntered(k) == IF k = 0 THEN 0 ELSE parsers[k].entered + BuildsEntered(k - 1)

\* Some build has run to its end
FirstBuildDone == \E k \in DOMAIN parsers : parsers[k].finished > 0

\* Every lookup made so far saw the whole index
NoPartialLookup == \A k \in DOMAIN parsers : parsers[k].looked => parsers[k].seen = FullIndex

\* The build was entered once, if at all
BuiltOnce == BuildsEntered(Len(parsers)) <= 1

\* No table that one keyspace declares is marked 'unknown'
OneOwnerNeverAmbiguous ==
    \A cf \in ParserTables :
        (Cardinality(DeclaredBy(cf)) = 1 /\ DictHas(CF_KEYSPACES, cf))
        => DictGet(CF_KEYSPACES, cf) # "unknown"

\* C25: with _guess_keyspace called by several parsers side by side, no lookup
\* sees a partially built index, the index is built once, a table declared by one
\* keyspace is never marked 'unknown', and once the first build has run to its end
\* no step changes the index
C25_LazyBuildThenFreeze ==
    /\ [](NoPartialLookup /\ BuiltOnce /\ OneOwnerNeverAmbiguous)
    /\ [][FirstBuildDone => CF_KEYSPACES' = CF_KEYSPACES]_vars

\* The same of a parser that resolves alone
AloneBuildsThenFreezes ==
    /\ []((\A k \in DOMAIN parsers : k # 1 => parsers[k] = Idle)
          => NoPartialLookup /\ BuiltOnce /\ OneOwnerNeverAmbiguous)
    /\ [][(FirstBuildDone /\ \A k \in DOMAIN parsers : k # 1 => parsers'[k] = Idle)
          => CF_KEYSPACES' = CF_KEYSPACES]_vars

====
